---- MODULE Spec2Model ----
(***************************************************************************)
(* A model of palmera: the JWT claims issuer/verifier of palmera-auth      *)
(* (src/palmera-auth/src/jwt.rs) and the generic insert handler of         *)
(* palmera-rest (src/palmera-rest/src/router.rs).                          *)
(*                                                                         *)
(* Time is an integer number of milliseconds.  The wall clock (Utc::now)   *)
(* is the variable now; it advances in steps of TickMs and never goes      *)
(* backwards.                                                              *)
(***************************************************************************)
EXTENDS Integers, Sequences, FiniteSets, TLC

\* ------------------------------------------------------------------ bounds
\* the clock runs from 0 to MaxTicks * TickMs
MaxTicks == 4
\* one step of the clock, in milliseconds
TickMs == 125
\* exp_duration ranges over -MaxTtlSteps .. MaxTtlSteps steps of TickMs
MaxTtlSteps == 2
\* number of claims values issued in one behaviour (bounds the fresh token ids)
MaxIssued == 1

\* ------------------------------------------------------- program constants
\* Duration::milliseconds(250), the not-before skew allowance of JWTClaims::new
Skew == 250

Subjects == {"u1", "u2"}
Issuers == {"palmera", "other-issuer"}
Audiences == {"web", "other-audience"}
Keys == {"supersecretkey", "wrongkey"}

\* the AuthConfig of the verifying service: the values it expects in a token
ConfigIssuer == "palmera"
ConfigAudience == "web"

Ttls == {s * TickMs : s \in (0 - MaxTtlSteps)..MaxTtlSteps}
\* offsets a caller may give the public field not_before_time before signing
NbfOffsets == {0 - TickMs, 0, TickMs, 2 * TickMs}

NoClaims == [none |-> TRUE]
NoToken == [none |-> TRUE]
NoCall == [none |-> TRUE]

NoIssue == [none |-> TRUE]

\* now: the wall clock; nextJti: the next fresh token id; issued: the latest
\* call of JWTClaims::new (its ttl, its instant and the value it returned);
\* claims: the JWTClaims value the caller holds; token: the signed token in
\* circulation; vcall: the latest call of JWTClaims::verify on that token and
\* its result; outcomes: the successive distinct outcomes of the verify calls
\* on that token that passed the signature check
VARIABLES now, nextJti, issued, claims, token, vcall, outcomes

jwtVars == <<now, nextJti, issued, claims, token, vcall, outcomes>>

\* ------------------------------------------------- palmera-rest inputs
\* Identifiers and field texts are sequences of characters.  The alphabet has
\* a letter, a digit, the underscore, the double quote, the single quote, the
\* semicolon and the space.
Names ==
    { <<"a">>, <<"_", "a">>, <<"a", "1">>, <<"1", "a">>,
      <<"a", "\"">>, <<"a", ";">>, <<"a", " ">>, <<"\"", ";">> }
Texts == { <<"x">>, <<"'">> }
\* number of parts of one multipart body
MaxFields == 2

NoRequest == [none |-> TRUE]
NoStatement == [none |-> TRUE]
NoResponse == [none |-> TRUE]

\* request: the POST /{schema}/{table} request being handled (its path
\* parameters and the named text parts of its multipart body, in order);
\* createPc: the await at which create stands for it; cursor: the number of
\* parts next_field has yielded; fieldMap: the HashMap `fields` filled so far;
\* statement: the SQL text built and the parameters bound to it
\* (sqlx::query_as(&sql) is given no bind); executed: whether that text was
\* sent to the database; trx: the state of the handler's transaction;
\* response: what create returned and the step at which it failed
VARIABLES request, createPc, cursor, fieldMap, statement, executed, trx, response

restVars == <<request, createPc, cursor, fieldMap, statement, executed, trx, response>>

\* ----------------------------------------------- palmera-database inputs
\* number of rows of _policies
MaxPolicies == 2

\* SQL NULL / Option::None, and Option::Some(x)
Null == [none |-> TRUE]
Some(x) == [some |-> x]

NoDescription == [none |-> TRUE]

\* catalog: the tables of the SQLite database (sqlite_master with what the
\* pragmas report of each table); policies: the rows of _policies in rowid
\* order; nextPolicyId: the next AUTOINCREMENT id; lastWrite: the outcome of
\* the latest administrative write to _policies; described: the latest call
\* of get_table_info (its argument and its result); checkRendering: how the
\* build wrote the column CHECKs of _policies (NoPolicyTable in a database
\* where _policies was not created)
VARIABLES catalog, policies, nextPolicyId, lastWrite, described, checkRendering

dbVars == <<catalog, policies, nextPolicyId, lastWrite, described, checkRendering>>

\* ----------------------------------------------- palmera-rest/utils.rs inputs
\* number of elements of a JSON array
MaxItems == 2

NoValue == [none |-> TRUE]

\* jsonValue: the serde_json value given to json_to_sea; seaValue: the
\* sea_query value it returned
VARIABLES jsonValue, seaValue

mapVars == <<jsonValue, seaValue>>

\* ------------------------------------------- palmera-auth/router.rs inputs
\* number of rows of auth.users
MaxUsers == 2

\* authUsers: the rows of auth.users; loginCalls: the two login requests
\* under comparison, each with its form, the await at which login stands
\* (pc), what find_by_email returned to it and the response it got
VARIABLES authUsers, loginCalls

authVars == <<authUsers, loginCalls>>

\* ---------------------------------------------- palmera-core/hook.rs inputs
\* number of bind calls on one Hook
MaxBinds == 3

\* handlers: Hook::handlers; bindCount: the number of bind calls so far (each
\* bound closure is a value of its own, named by the ordinal of its bind);
\* hookCall: the latest call on the hook that ended, with the handler list it
\* found and what it returned; triggerRun: the call of trigger under way, with
\* the number of handlers it has called and the results pushed so far
VARIABLES handlers, bindCount, hookCall, triggerRun

hookVars == <<handlers, bindCount, hookCall, triggerRun>>

\* ------------------------------------------ palmera-storage/local.rs inputs
\* fs: the directories under base_dir, each a map from file name to content;
\* uploadCalls: the two calls of upload under comparison, each with its
\* arguments, the await at which it stands (pc) and what it returned;
\* pending: the writes tokio's File has buffered and not yet performed;
\* storageCall: the latest call of download or list and what it returned
VARIABLES fs, uploadCalls, pending, storageCall

storageVars == <<fs, uploadCalls, pending, storageCall>>

vars == <<jwtVars, restVars, dbVars, mapVars, authVars, hookVars, storageVars>>

\* ---------------------------------------------------------------- jwt.rs

\* JWTClaims::new with the skew allowance added to now instead of subtracted
NewClaims_SkewAdded(subject, exp_duration, issuer, audience, t, jti) ==
    [subject |-> subject,
     expiration |-> t + exp_duration,
     issued_at |-> t,
     issuer |-> issuer,
     audience |-> audience,
     not_before_time |-> t + Skew,
     jwt_token_id |-> jti]

\* JWTClaims::new: the claims issued at instant t with token id jti
NewClaims(subject, exp_duration, issuer, audience, t, jti) ==
    [subject |-> subject,
     expiration |-> t + exp_duration,
     issued_at |-> t,
     issuer |-> issuer,
     audience |-> audience,
     not_before_time |-> t - Skew,
     jwt_token_id |-> jti]

\* serde Serialize of JWTClaims: the JSON payload under the renamed keys.
\* Timestamps are written as RFC 3339 strings with their full sub-second
\* part and UUIDs in their canonical text form, so values are kept as they are.
Serialize(c) ==
    [sub |-> c.subject,
     exp |-> c.expiration,
     iat |-> c.issued_at,
     iss |-> c.issuer,
     aud |-> c.audience,
     nbf |-> c.not_before_time,
     jti |-> c.jwt_token_id]

\* Deserialize with the renames of issued_at and not_before_time exchanged
Deserialize_IatNbfSwapped(p) ==
    [subject |-> p.sub,
     expiration |-> p.exp,
     issued_at |-> p.nbf,
     issuer |-> p.iss,
     audience |-> p.aud,
     not_before_time |-> p.iat,
     jwt_token_id |-> p.jti]

\* serde Deserialize of JWTClaims: the payload read back into the struct
Deserialize(p) ==
    [subject |-> p.sub,
     expiration |-> p.exp,
     issued_at |-> p.iat,
     issuer |-> p.iss,
     audience |-> p.aud,
     not_before_time |-> p.nbf,
     jwt_token_id |-> p.jti]

\* HMAC-SHA256 of header.payload under key, as an ideal MAC: the tag
\* determines the key and the message.  altered marks a tag whose bytes were
\* changed after signing.
Mac(key, header, payload) ==
    [key |-> key, header |-> header, payload |-> payload, altered |-> FALSE]

\* JWTClaims::sign: header.payload.signature
SignToken(c, key) ==
    [header |-> "HS256",
     payload |-> Serialize(c),
     signature |-> Mac(key, "HS256", Serialize(c))]

\* token.verify_with_key(&key): the tag of the token's header and payload
\* under key must equal the token's signature
SignatureVerifies(tok, key) ==
    tok.signature = Mac(key, tok.header, tok.payload)

\* verify with the not-before check placed before the expiration check
VerifyToken_NbfFirst(tok, key, t) ==
    IF ~SignatureVerifies(tok, key)
    THEN [kind |-> "SignatureInvalid", claims |-> NoClaims]
    ELSE LET c == Deserialize(tok.payload) IN
         IF t < c.not_before_time
         THEN [kind |-> "NotYetValid", claims |-> NoClaims]
         ELSE IF t > c.expiration
              THEN [kind |-> "Expired", claims |-> NoClaims]
              ELSE [kind |-> "Ok", claims |-> c]

\* verify that reads the time window of the payload before it checks the
\* signature
VerifyToken_TimeFirst(tok, key, t) ==
    LET c == Deserialize(tok.payload) IN
    IF t > c.expiration
    THEN [kind |-> "Expired", claims |-> NoClaims]
    ELSE IF t < c.not_before_time
         THEN [kind |-> "NotYetValid", claims |-> NoClaims]
         ELSE IF ~SignatureVerifies(tok, key)
              THEN [kind |-> "SignatureInvalid", claims |-> NoClaims]
              ELSE [kind |-> "Ok", claims |-> c]

\* verify with the expiration comparison inverted
VerifyToken_ExpiryInverted(tok, key, t) ==
    IF ~SignatureVerifies(tok, key)
    THEN [kind |-> "SignatureInvalid", claims |-> NoClaims]
    ELSE LET c == Deserialize(tok.payload) IN
         IF t < c.expiration
         THEN [kind |-> "Expired", claims |-> NoClaims]
         ELSE IF t < c.not_before_time
              THEN [kind |-> "NotYetValid", claims |-> NoClaims]
              ELSE [kind |-> "Ok", claims |-> c]

\* JWTClaims::verify at instant t: the outcome and the claims returned
VerifyToken(tok, key, t) ==
    IF ~SignatureVerifies(tok, key)
    THEN [kind |-> "SignatureInvalid", claims |-> NoClaims]
    ELSE LET c == Deserialize(tok.payload) IN
         IF t > c.expiration
         THEN [kind |-> "Expired", claims |-> NoClaims]
         ELSE IF t < c.not_before_time
              THEN [kind |-> "NotYetValid", claims |-> NoClaims]
              ELSE [kind |-> "Ok", claims |-> c]

\* ------------------------------------------------------------ jwt actions

InitJwt ==
    /\ now = 0
    /\ nextJti = 1
    /\ claims = NoClaims
    /\ token = NoToken
    /\ issued = NoIssue
    /\ vcall = NoCall
    /\ outcomes = <<>>

\* Utc::now() moves forward
Tick ==
    /\ now < MaxTicks * TickMs
    /\ now' = now + TickMs
    /\ UNCHANGED <<nextJti, issued, claims, token, vcall, outcomes>>
    /\ UNCHANGED <<restVars, dbVars, mapVars, authVars, hookVars, storageVars>>

\* let claims = JWTClaims::new(subject, exp_duration, issuer, audience),
\* the start of a new token's life
Issue(subject, exp_duration, issuer, audience) ==
    /\ nextJti <= MaxIssued
    /\ claims' = NewClaims(subject, exp_duration, issuer, audience, now, nextJti)
    /\ issued' = [ttl |-> exp_duration, at |-> now, claims |-> claims']
    /\ nextJti' = nextJti + 1
    /\ token' = NoToken
    /\ vcall' = NoCall
    /\ outcomes' = <<>>
    /\ UNCHANGED now
    /\ UNCHANGED <<restVars, dbVars, mapVars, authVars, hookVars, storageVars>>

\* claims.not_before_time = Utc::now() + d (the field is public), before signing
SetNotBefore(d) ==
    /\ claims # NoClaims
    /\ token = NoToken
    /\ claims' = [claims EXCEPT !.not_before_time = now + d]
    /\ UNCHANGED <<now, nextJti, issued, token, vcall, outcomes>>
    /\ UNCHANGED <<restVars, dbVars, mapVars, authVars, hookVars, storageVars>>

\* let token = claims.sign(key)
Sign(key) ==
    /\ claims # NoClaims
    /\ token = NoToken
    /\ token' = SignToken(claims, key)
    /\ UNCHANGED <<now, nextJti, issued, claims, vcall, outcomes>>
    /\ UNCHANGED <<restVars, dbVars, mapVars, authVars, hookVars, storageVars>>

\* a byte of the token's signature segment is changed (or changed back)
TamperSignature ==
    /\ token # NoToken
    /\ token' = [token EXCEPT !.signature.altered = ~@]
    /\ vcall' = NoCall
    /\ outcomes' = <<>>
    /\ UNCHANGED <<now, nextJti, issued, claims>>
    /\ UNCHANGED <<restVars, dbVars, mapVars, authVars, hookVars, storageVars>>

\* the audience in the token's payload segment is rewritten, signature kept
TamperPayload(audience) ==
    /\ token # NoToken
    /\ token.payload.aud # audience
    /\ token' = [token EXCEPT !.payload.aud = audience]
    /\ vcall' = NoCall
    /\ outcomes' = <<>>
    /\ UNCHANGED <<now, nextJti, issued, claims>>
    /\ UNCHANGED <<restVars, dbVars, mapVars, authVars, hookVars, storageVars>>

\* JWTClaims::verify(&token, key), called by a service configured with
\* ConfigIssuer and ConfigAudience
Verify(key) ==
    /\ token # NoToken
    /\ LET r == VerifyToken(token, key, now) IN
       /\ vcall' = [key |-> key, at |-> now, kind |-> r.kind, claims |-> r.claims]
       /\ outcomes' = IF \/ r.kind = "SignatureInvalid"
                          \/ (outcomes # <<>> /\ outcomes[Len(outcomes)] = r.kind)
                       THEN outcomes
                       ELSE Append(outcomes, r.kind)
    /\ UNCHANGED <<now, nextJti, issued, claims, token>>
    /\ UNCHANGED <<restVars, dbVars, mapVars, authVars, hookVars, storageVars>>

NextJwt ==
    \/ Tick
    \/ \E s \in Subjects, d \in Ttls, i \in Issuers, a \in Audiences :
          Issue(s, d, i, a)
    \/ \E d \in NbfOffsets : SetNotBefore(d)
    \/ \E k \in Keys : Sign(k)
    \/ TamperSignature
    \/ \E a \in Audiences : TamperPayload(a)
    \/ \E k \in Keys : Verify(k)

\* --------------------------------------------- palmera-rest/router.rs

RECURSIVE EscapeQuote(_, _)
\* Iden::quoted: every occurrence of the quote character q in the name doubled
EscapeQuote(name, q) ==
    IF name = <<>> THEN <<>>
    ELSE (IF Head(name) = q THEN <<q, q>> ELSE <<Head(name)>>)
         \o EscapeQuote(Tail(name), q)

\* Alias::new(name) written by PostgresQueryBuilder: the name between double
\* quotes, its own double quotes doubled
QuoteIdent(name) == <<"\"">> \o EscapeQuote(name, "\"") \o <<"\"">>

RECURSIVE EscapeString(_)
\* EscapeBuilder::escape_string: a backslash put before every backslash,
\* double quote and single quote of the text
EscapeString(text) ==
    IF text = <<>> THEN <<>>
    ELSE (IF Head(text) \in {"\\", "\"", "'"} THEN <<"\\", Head(text)>>
          ELSE <<Head(text)>>)
         \o EscapeString(Tail(text))

\* a string value written inline by to_string(PostgresQueryBuilder): the
\* escaped text between single quotes, as an E'..' literal when the escaping
\* added a backslash
QuoteLiteral(text) ==
    LET escaped == EscapeString(text) IN
    (IF \E i \in 1..Len(escaped) : escaped[i] = "\\" THEN <<"E'">> ELSE <<"'">>)
    \o escaped \o <<"'">>

RECURSIVE JoinComma(_)
\* the pieces separated by ", "
JoinComma(pieces) ==
    IF pieces = <<>> THEN <<>>
    ELSE IF Len(pieces) = 1 THEN pieces[1]
    ELSE pieces[1] \o <<", ">> \o JoinComma(Tail(pieces))

RECURSIVE CollectFields(_)
\* the while-let loop over the multipart parts: fields.insert(name, value),
\* a later part replacing an earlier one of the same name
CollectFields(parts) ==
    IF parts = <<>> THEN << >>
    ELSE LET rest == CollectFields(SubSeq(parts, 1, Len(parts) - 1))
             last == parts[Len(parts)]
         IN [n \in (DOMAIN rest) \cup {last.name} |->
                IF n = last.name THEN last.value ELSE rest[n]]

\* the orders in which fields.into_iter() may yield the keys of the HashMap
IterationOrders(fields) ==
    LET keys == DOMAIN fields IN
    { o \in [1..Cardinality(keys) -> keys] :
        \A i, j \in 1..Cardinality(keys) : i # j => o[i] # o[j] }

\* Query::insert().into_table((schema, table)).columns(..).values(..)
\*   .returning(Expr::cust(format!("row_to_json({}.*) as data", table)))
\*   .to_string(PostgresQueryBuilder), for the columns in the order given.
\* The table name is quoted in INTO and copied as it is into RETURNING.
InsertSql(schema, table, fields, order) ==
    <<"INSERT INTO ">> \o QuoteIdent(schema) \o <<".">> \o QuoteIdent(table)
    \o <<" (">>
    \o JoinComma([i \in 1..Len(order) |-> QuoteIdent(order[i])])
    \o <<")">>
    \o (IF Len(order) = 0 THEN <<>>
        ELSE <<" VALUES (">>
             \o JoinComma([i \in 1..Len(order) |-> QuoteLiteral(fields[order[i]])])
             \o <<")">>)
    \o <<" RETURNING row_to_json(">> \o table \o <<".*) as data">>

\* the points at which a collaborator of create can fail
Faults == {"none", "begin", "multipart", "upload", "execute", "commit"}

\* a sqlx transaction dropped before commit: what it did is not applied
DroppedTransaction_Commits == "committed"

\* a sqlx transaction dropped before commit (every `?` of create after
\* db.begin drops trx): it is rolled back
DroppedTransaction == "rolled_back"

\* fields.insert(name, value): a later part replaces an earlier one of the
\* same name
InsertField(map, name, value) ==
    [n \in (DOMAIN map) \cup {name} |-> IF n = name THEN value ELSE map[n]]

\* an early return of create with an error status
Fail(status, step) ==
    /\ response' = [status |-> status, failed |-> step]
    /\ createPc' = "done"

\* db.begin().await: a transaction is opened, or create returns 500
Begin(fault) ==
    /\ request # NoRequest
    /\ createPc = "begin"
    /\ fault \in {"none", "begin"}
    /\ IF fault = "begin"
       THEN Fail(500, "begin") /\ UNCHANGED trx
       ELSE trx' = "open" /\ createPc' = "text_or_end" /\ UNCHANGED response
    /\ UNCHANGED <<request, cursor, fieldMap, statement, executed>>
    /\ UNCHANGED <<jwtVars, dbVars, mapVars, authVars, hookVars, storageVars>>

\* multipart.next_field().await yields the next part: a failure, or a part
\* without a name, returns 400; a part with a file name reaches todo!();
\* otherwise create goes on to read the part's text
NextField(fault) ==
    /\ createPc = "text_or_end"
    /\ cursor < Len(request.parts)
    /\ fault \in {"none", "multipart", "upload"}
    /\ IF fault = "multipart"
       THEN Fail(400, "multipart") /\ trx' = DroppedTransaction
       ELSE IF fault = "upload"
       THEN Fail("panic", "upload") /\ trx' = DroppedTransaction
       ELSE createPc' = "text" /\ UNCHANGED <<trx, response>>
    /\ UNCHANGED <<request, cursor, fieldMap, statement, executed>>
    /\ UNCHANGED <<jwtVars, dbVars, mapVars, authVars, hookVars, storageVars>>

\* field.text().await: the text is put into the HashMap under the part's
\* name, or create returns 400
FieldText(fault) ==
    /\ createPc = "text"
    /\ fault \in {"none", "multipart"}
    /\ IF fault = "multipart"
       THEN /\ Fail(400, "multipart") /\ trx' = DroppedTransaction
            /\ UNCHANGED <<cursor, fieldMap>>
       ELSE /\ fieldMap' = InsertField(fieldMap, request.parts[cursor + 1].name,
                                     request.parts[cursor + 1].value)
            /\ cursor' = cursor + 1
            /\ createPc' = "text_or_end"
            /\ UNCHANGED <<trx, response>>
    /\ UNCHANGED <<request, statement, executed>>
    /\ UNCHANGED <<jwtVars, dbVars, mapVars, authVars, hookVars, storageVars>>

\* multipart.next_field().await after the last part: on None the statement
\* is built from the HashMap, iterated in the given order, and handed to
\* fetch_one; a failure returns 400
EndOfFields(order, fault) ==
    /\ createPc = "text_or_end"
    /\ cursor = Len(request.parts)
    /\ fault \in {"none", "multipart"}
    /\ order \in IterationOrders(fieldMap)
    /\ IF fault = "multipart"
       THEN Fail(400, "multipart") /\ trx' = DroppedTransaction
            /\ UNCHANGED statement
       ELSE /\ statement' = [text |-> InsertSql(request.schema, request.table,
                                                fieldMap, order),
                             params |-> <<>>]
            /\ createPc' = "fetch_one"
            /\ UNCHANGED <<trx, response>>
    /\ UNCHANGED <<request, cursor, fieldMap, executed>>
    /\ UNCHANGED <<jwtVars, dbVars, mapVars, authVars, hookVars, storageVars>>

\* fetch_one(&mut *trx).await: the statement text is sent and the database
\* returns the inserted row, or an error (always so for the statement of an
\* empty column list, which has no VALUES); or the call fails before the text
\* has left (sent = FALSE).  Every error returns 500.
FetchOne(fault, sent) ==
    /\ createPc = "fetch_one"
    /\ fault \in {"none", "execute"}
    /\ ~sent => fault = "execute"
    /\ executed' = sent
    /\ IF fault = "execute" \/ DOMAIN fieldMap = {}
       THEN Fail(500, "execute") /\ trx' = DroppedTransaction
       ELSE createPc' = "commit" /\ UNCHANGED <<trx, response>>
    /\ UNCHANGED <<request, cursor, fieldMap, statement>>
    /\ UNCHANGED <<jwtVars, dbVars, mapVars, authVars, hookVars, storageVars>>

\* trx.commit().await, then Ok(Json(result.data)).  Every error of commit
\* returns 500; one that arrives after COMMIT was sent may find it applied.
Commit(fault, applied) ==
    /\ createPc = "commit"
    /\ fault \in {"none", "commit"}
    /\ applied => fault = "commit"
    /\ IF fault = "commit"
       THEN /\ Fail(500, "commit")
            /\ trx' = IF applied THEN "committed" ELSE DroppedTransaction
       ELSE /\ trx' = "committed"
            /\ response' = [status |-> 200, failed |-> "none"]
            /\ createPc' = "done"
    /\ UNCHANGED <<request, cursor, fieldMap, statement, executed>>
    /\ UNCHANGED <<jwtVars, dbVars, mapVars, authVars, hookVars, storageVars>>

\* the handler's future is dropped at one of its awaits (the client went
\* away): nothing is returned and an open transaction is dropped.  A future
\* dropped inside fetch_one may or may not have sent the statement; one
\* dropped inside commit may or may not have had COMMIT applied.
Cancel(sent, applied) ==
    /\ request # NoRequest
    /\ createPc \in {"begin", "text_or_end", "text", "fetch_one", "commit"}
    /\ sent => createPc = "fetch_one"
    /\ applied => createPc = "commit"
    /\ createPc' = "dropped"
    /\ executed' = (executed \/ sent)
    /\ trx' = IF trx # "open" THEN trx
              ELSE IF applied THEN "committed" ELSE DroppedTransaction
    /\ UNCHANGED <<request, cursor, fieldMap, statement, response>>
    /\ UNCHANGED <<jwtVars, dbVars, mapVars, authVars, hookVars, storageVars>>

\* the requests a client can send
Requests ==
    { [schema |-> s, table |-> t, parts |-> p] :
        s \in Names, t \in Names,
        p \in UNION { [1..n -> [name : Names, value : Texts]] : n \in 0..MaxFields } }

\* create has not started on the request
CreateStart ==
    /\ createPc = "begin"
    /\ cursor = 0
    /\ fieldMap = << >>
    /\ statement = NoStatement
    /\ executed = FALSE
    /\ trx = "none"
    /\ response = NoResponse

InitRest ==
    /\ request \in Requests
    /\ CreateStart

RestIdle ==
    /\ request = NoRequest
    /\ CreateStart

\* the only route of router() is create
NextRest ==
    \/ \E fault \in Faults : Begin(fault)
    \/ \E fault \in Faults : NextField(fault)
    \/ \E fault \in Faults : FieldText(fault)
    \/ \E order \in IterationOrders(fieldMap), fault \in Faults : EndOfFields(order, fault)
    \/ \E fault \in Faults, sent \in BOOLEAN : FetchOne(fault, sent)
    \/ \E fault \in Faults, applied \in BOOLEAN : Commit(fault, applied)
    \/ \E sent \in BOOLEAN, applied \in BOOLEAN : Cancel(sent, applied)

\* ------------------------------------- palmera-database/sqlite/schemas.rs

\* a row of pragma_table_xinfo
Column(cid, name, type, notnull, dflt, pk) ==
    [cid |-> cid, name |-> name, type |-> type, notnull |-> notnull,
     dflt_value |-> dflt, pk |-> pk, hidden |-> 0]

\* a row of pragma_foreign_key_list
ForeignKey(id, from, table, to, on_update, on_delete) ==
    [id |-> id, from |-> from, table |-> table, to |-> to,
     on_update |-> on_update, on_delete |-> on_delete]

\* CREATE TABLE roles (examples/table-management)
RolesTable ==
    [name |-> "roles", type |-> "table", sql |-> "CREATE TABLE roles",
     columns |-> << Column(0, "id", "INTEGER", 0, Null, 1),
                    Column(1, "name", "TEXT", 1, Null, 0) >>,
     foreign_keys |-> << >>,
     indexes |-> << [name |-> "sqlite_autoindex_roles_1", columns |-> {"name"}] >>]

\* CREATE TABLE users and CREATE INDEX idx_users_email (examples/table-management)
UsersTable ==
    [name |-> "users", type |-> "table", sql |-> "CREATE TABLE users",
     columns |-> << Column(0, "id", "INTEGER", 0, Null, 1),
                    Column(1, "username", "TEXT", 1, Null, 0),
                    Column(2, "email", "TEXT", 1, Null, 0),
                    Column(3, "is_active", "INTEGER", 1, Some("1"), 0),
                    Column(4, "role_id", "INTEGER", 0, Null, 0) >>,
     foreign_keys |-> << ForeignKey(0, "role_id", "roles", "id", "CASCADE", "SET NULL") >>,
     indexes |-> << [name |-> "idx_users_email", columns |-> {"email"}],
                    [name |-> "sqlite_autoindex_users_2", columns |-> {"email"}],
                    [name |-> "sqlite_autoindex_users_1", columns |-> {"username"}] >>]

\* a table with a two-column primary key and a column that is the source of
\* two foreign keys:
\*   CREATE TABLE memberships (user_id INTEGER, role_id INTEGER, owner_id INTEGER,
\*     PRIMARY KEY (user_id, role_id),
\*     FOREIGN KEY (owner_id) REFERENCES users(id),
\*     FOREIGN KEY (owner_id) REFERENCES roles(id))
MembershipsTable ==
    [name |-> "memberships", type |-> "table", sql |-> "CREATE TABLE memberships",
     columns |-> << Column(0, "user_id", "INTEGER", 0, Null, 1),
                    Column(1, "role_id", "INTEGER", 0, Null, 2),
                    Column(2, "owner_id", "INTEGER", 0, Null, 0) >>,
     foreign_keys |-> << ForeignKey(0, "owner_id", "roles", "id", "NO ACTION", "NO ACTION"),
                         ForeignKey(1, "owner_id", "users", "id", "NO ACTION", "NO ACTION") >>,
     indexes |-> << [name |-> "sqlite_autoindex_memberships_1",
                     columns |-> {"user_id", "role_id"}] >>]

\* a view: a row of sqlite_master whose type is not 'table'
ActiveUsersView ==
    [name |-> "active_users", type |-> "view", sql |-> "CREATE VIEW active_users",
     columns |-> << Column(0, "id", "INTEGER", 0, Null, 0) >>,
     foreign_keys |-> << >>,
     indexes |-> << >>]

\* the databases get_table_info is run against: the tables of the example, and
\* those with a table that has a composite key and a view (the bookkeeping
\* tables of SQLite and of the migrations are left out)
Catalogs ==
    { {RolesTable, UsersTable},
      {RolesTable, UsersTable, MembershipsTable, ActiveUsersView} }

\* the names get_table_info is called with and policies are written for
TableNames == {"users", "roles", "memberships", "active_users", "ghost"}

RECURSIVE Flatten(_)
\* the rows of the groups, one group after the other
Flatten(groups) ==
    IF groups = <<>> THEN <<>> ELSE Head(groups) \o Flatten(Tail(groups))

\* group_concat(il.name) FROM pragma_index_list JOIN pragma_index_info
\* ON ii.name = txi.name: the names of the indexes that hold the column, or
\* NULL when there is none
PartOfIndex(table, column) ==
    LET IsMember(ix) == column \in ix.columns
        hits == SelectSeq(table.indexes, IsMember)
    IN IF hits = <<>> THEN Null
       ELSE Some([i \in 1..Len(hits) |-> hits[i].name])

\* json_object('column_id', .. 'part_of_index', ..) for one row of
\* pragma_table_xinfo LEFT JOIN pragma_foreign_key_list; fk is Null for a
\* column without a matching foreign key
ColumnDetails(table, txi, fk) ==
    [column_id |-> Some(txi.cid),
     column_name |-> txi.name,
     data_type |-> txi.type,
     is_not_null |-> txi.notnull,
     default_value |-> txi.dflt_value,
     is_primary_key |-> IF txi.pk > 0 THEN 1 ELSE 0,
     primary_key_order |-> Some(txi.pk),
     generated_column_type |-> Some(txi.hidden),
     is_foreign_key |-> IF fk # Null THEN 1 ELSE 0,
     reference_table |-> IF fk # Null THEN Some(fk.table) ELSE Null,
     reference_column |-> IF fk # Null THEN Some(fk.to) ELSE Null,
     foreign_key_on_update |-> IF fk # Null THEN Some(fk.on_update) ELSE Null,
     foreign_key_on_delete |-> IF fk # Null THEN Some(fk.on_delete) ELSE Null,
     part_of_index |-> PartOfIndex(table, txi.name)]

\* the rows of pragma_table_xinfo(m.name) AS txi LEFT JOIN
\* pragma_foreign_key_list(m.name) AS fkl ON fkl."from" = txi.name, in the
\* order of the scan: the columns by cid, each once per matching foreign key
\* and once when it has none
ColumnRows(table) ==
    Flatten([i \in 1..Len(table.columns) |->
        LET txi == table.columns[i]
            IsFrom(fk) == fk.from = txi.name
            fks == SelectSeq(table.foreign_keys, IsFrom)
        IN IF fks = <<>> THEN << ColumnDetails(table, txi, Null) >>
           ELSE [j \in 1..Len(fks) |-> ColumnDetails(table, txi, fks[j])]])

\* json_object('id', p.id, .. 'check_expr', p.check_expr) for a row of _policies
PolicyDetails(p) ==
    [id |-> p.id,
     name |-> Some(p.name),
     description |-> p.description,
     is_enabled |-> p.is_enabled,
     operation |-> Some(p.operation),
     policy_type |-> Some(p.policy_type),
     using_expr |-> p.using_expr,
     check_expr |-> p.check_expr]

\* the policies subquery without its is_enabled condition
PolicyRows_DisabledIncluded(rows, table_name) ==
    LET Matches(p) == p.table_name = table_name
        hits == SelectSeq(rows, Matches)
    IN [i \in 1..Len(hits) |-> PolicyDetails(hits[i])]

\* FROM _policies p WHERE p.table_name = m.name AND p.is_enabled = 1
PolicyRows(rows, table_name) ==
    LET Matches(p) == p.table_name = table_name /\ p.is_enabled = 1
        hits == SelectSeq(rows, Matches)
    IN [i \in 1..Len(hits) |-> PolicyDetails(hits[i])]

\* get_table_info matching every row of sqlite_master with the name
GetTableInfo_AnyType(hasPolicyTable, cat, rows, name) ==
    LET found == {m \in cat : m.name = name} IN
    IF ~hasPolicyTable THEN [error |-> "Database"]
    ELSE IF found = {} THEN [error |-> "RowNotFound"]
    ELSE LET m == CHOOSE t \in found : TRUE IN
         [table_details |->
            [name |-> m.name,
             type |-> Some(m.type),
             schema |-> Some("main"),
             sql |-> Some(m.sql),
             policies |-> PolicyRows(rows, m.name),
             columns |-> ColumnRows(m)]]

\* get_table_info(db, name): FROM sqlite_master AS m WHERE m.type = 'table'
\* AND m.name = ?, fetch_one.  The statement names _policies in its policies
\* subquery: in a database without that table it is refused when prepared
\* (no such table: _policies), whatever the name
GetTableInfo(hasPolicyTable, cat, rows, name) ==
    LET found == {m \in cat : m.type = "table" /\ m.name = name} IN
    IF ~hasPolicyTable THEN [error |-> "Database"]
    ELSE IF found = {} THEN [error |-> "RowNotFound"]
    ELSE LET m == CHOOSE t \in found : TRUE IN
         [table_details |->
            [name |-> m.name,
             type |-> Some(m.type),
             schema |-> Some("main"),
             sql |-> Some(m.sql),
             policies |-> PolicyRows(rows, m.name),
             columns |-> ColumnRows(m)]]

\* ------------------------------------- palmera-database/sqlite/helpers.rs

\* ColumnDef::check("operation IN (..)") and ColumnDef::check("policy_type IN
\* (..)") are given a &str.  The sea_query of the build (src/ does not fix
\* its version) writes it as the condition, CHECK (operation IN (..)), or as
\* a string value, CHECK ('operation IN (..)')
Renderings == {"expression", "literal"}

\* a database in which create_policy_table's statement was not run
NoPolicyTable == "none"

\* operation IN ('select', 'update', 'insert', 'delete', 'all')
Operations == {"select", "update", "insert", "delete", "all"}

\* policy_type IN ('PERMISSIVE', 'RESTRICTIVE')
PolicyTypes == {"PERMISSIVE", "RESTRICTIVE"}

\* a column CHECK on the value written.  As a condition it holds for NULL
\* and for the allowed values.  As a text literal it is read as a number, 0
\* for these texts, which fails every INSERT; on UPDATE SQLite evaluates only
\* the CHECKs that name a changed column, so never the literal.
ColumnCheckHolds(rendering, allowed, value, isUpdate) ==
    IF rendering = "expression"
    THEN value = Null \/ value.some \in allowed
    ELSE isUpdate

\* NOT NULL on name, is_enabled, table_name, operation and policy_type, and
\* UNIQUE on name
ColumnsAccepted(rows, row) ==
    /\ row.name # Null
    /\ \A i \in 1..Len(rows) : Some(rows[i].name) # row.name
    /\ row.is_enabled # Null
    /\ row.table_name # Null
    /\ row.operation # Null
    /\ row.policy_type # Null

\* the constraints of _policies without the table CHECK on the expressions
PolicyAccepted_NoExpressionCheck(rendering, rows, row, isUpdate) ==
    /\ ColumnsAccepted(rows, row)
    /\ ColumnCheckHolds(rendering, Operations, row.operation, isUpdate)
    /\ ColumnCheckHolds(rendering, PolicyTypes, row.policy_type, isUpdate)

\* the constraints of _policies (create_policy_table) on a row written by an
\* INSERT, or by an UPDATE of name, operation, policy_type, using_expr and
\* check_expr; the values are Some(v) or Null.  The table constraint CHECK
\* (using_expr IS NOT NULL OR check_expr IS NOT NULL) is built with
\* Expr::cust and is a condition in every build.
PolicyAccepted(rendering, rows, row, isUpdate) ==
    /\ ColumnsAccepted(rows, row)
    /\ ColumnCheckHolds(rendering, Operations, row.operation, isUpdate)
    /\ ColumnCheckHolds(rendering, PolicyTypes, row.policy_type, isUpdate)
    /\ (row.using_expr # Null \/ row.check_expr # Null)

\* the row of _policies stored for an accepted insert
StoredPolicy(id, row) ==
    [id |-> id,
     name |-> row.name.some,
     description |-> row.description,
     is_enabled |-> row.is_enabled.some,
     table_name |-> row.table_name.some,
     operation |-> row.operation.some,
     policy_type |-> row.policy_type.some,
     using_expr |-> row.using_expr,
     check_expr |-> row.check_expr]

PolicyNames == {"p1", "p2", "p3"}

PolicyTables == {"users", "ghost"}

\* operation, policy_type, using_expr, check_expr of the policies written
PolicyShapes ==
    { <<"select", "PERMISSIVE", Some("is_active = 1"), Null>>,
      <<"insert", "RESTRICTIVE", Null, Some("role_id IS NOT NULL")>> }

\* values outside what create_policy_table writes in its constraints: an
\* unknown operation, an unknown policy type, and neither expression
RefusedShapes ==
    { <<"truncate", "PERMISSIVE", Some("is_active = 1"), Null>>,
      <<"select", "OPTIONAL", Some("is_active = 1"), Null>>,
      <<"select", "PERMISSIVE", Null, Null>> }

\* the rows an administrator inserts into _policies
PolicyInputs ==
    { [name |-> Some(n), description |-> Null, is_enabled |-> Some(e),
       table_name |-> Some(t), operation |-> Some(sh[1]),
       policy_type |-> Some(sh[2]), using_expr |-> sh[3], check_expr |-> sh[4]] :
        n \in PolicyNames, e \in {0, 1}, t \in PolicyTables, sh \in PolicyShapes }
    \cup { [name |-> Some("p1"), description |-> Null, is_enabled |-> Some(1),
            table_name |-> Some("users"), operation |-> Some(sh[1]),
            policy_type |-> Some(sh[2]), using_expr |-> sh[3],
            check_expr |-> sh[4]] : sh \in RefusedShapes }
    \cup { [name |-> Null, description |-> Null, is_enabled |-> Some(1),
            table_name |-> Some("users"), operation |-> Some("select"),
            policy_type |-> Some("PERMISSIVE"),
            using_expr |-> Some("is_active = 1"), check_expr |-> Null] }

\* INSERT INTO _policies (..) VALUES (..)
InsertPolicy(row) ==
    /\ Len(policies) < MaxPolicies
    /\ IF checkRendering # NoPolicyTable
          /\ PolicyAccepted(checkRendering, policies, row, FALSE)
       THEN /\ policies' = Append(policies, StoredPolicy(nextPolicyId, row))
            /\ nextPolicyId' = nextPolicyId + 1
            /\ lastWrite' = "inserted"
       ELSE /\ lastWrite' = "rejected"
            /\ UNCHANGED <<policies, nextPolicyId>>
    /\ described' = NoDescription
    /\ UNCHANGED <<catalog, checkRendering>>
    /\ UNCHANGED <<jwtVars, restVars, mapVars, authVars, hookVars, storageVars>>

\* UPDATE _policies SET is_enabled = 0 WHERE id = ?: a policy is retired by
\* disabling it, its row stays
DisablePolicy(id) ==
    /\ \E i \in 1..Len(policies) : policies[i].id = id /\ policies[i].is_enabled # 0
    /\ policies' = [i \in 1..Len(policies) |->
                      IF policies[i].id = id
                      THEN [policies[i] EXCEPT !.is_enabled = 0]
                      ELSE policies[i]]
    /\ lastWrite' = "updated"
    /\ described' = NoDescription
    /\ UNCHANGED <<catalog, nextPolicyId, checkRendering>>
    /\ UNCHANGED <<jwtVars, restVars, mapVars, authVars, hookVars, storageVars>>

\* the values an administrator rewrites a policy with
PolicyEdits ==
    { [name |-> Some("p1"), operation |-> Some(sh[1]), policy_type |-> Some(sh[2]),
       using_expr |-> sh[3], check_expr |-> sh[4]] :
        sh \in PolicyShapes \cup RefusedShapes }
    \cup { [name |-> Null, operation |-> Some("select"),
            policy_type |-> Some("PERMISSIVE"),
            using_expr |-> Some("is_active = 1"), check_expr |-> Null] }

\* UPDATE _policies SET name = ?, operation = ?, policy_type = ?,
\* using_expr = ?, check_expr = ? WHERE id = ?: the row is rewritten when the
\* constraints evaluated on an UPDATE accept the new values next to the
\* other rows
UpdatePolicy(id, edit) ==
    /\ \E i \in 1..Len(policies) : policies[i].id = id
    /\ LET Other(p) == p.id # id
           old == policies[CHOOSE i \in 1..Len(policies) : policies[i].id = id]
           row == [name |-> edit.name, description |-> old.description,
                   is_enabled |-> Some(old.is_enabled),
                   table_name |-> Some(old.table_name),
                   operation |-> edit.operation, policy_type |-> edit.policy_type,
                   using_expr |-> edit.using_expr, check_expr |-> edit.check_expr]
       IN
       IF PolicyAccepted(checkRendering, SelectSeq(policies, Other), row, TRUE)
       THEN /\ policies' = [i \in 1..Len(policies) |->
                              IF policies[i].id = id THEN StoredPolicy(id, row)
                              ELSE policies[i]]
            /\ lastWrite' = "rewritten"
       ELSE /\ lastWrite' = "rejected"
            /\ UNCHANGED policies
    /\ described' = NoDescription
    /\ UNCHANGED <<catalog, nextPolicyId, checkRendering>>
    /\ UNCHANGED <<jwtVars, restVars, mapVars, authVars, hookVars, storageVars>>

\* a call of get_table_info; its result is kept until the next write
Describe(name) ==
    /\ described' = [name |-> name, result |-> GetTableInfo(checkRendering # NoPolicyTable,
                                                        catalog, policies, name)]
    /\ described' # described
    /\ UNCHANGED <<catalog, policies, nextPolicyId, lastWrite, checkRendering>>
    /\ UNCHANGED <<jwtVars, restVars, mapVars, authVars, hookVars, storageVars>>

InitDb ==
    /\ catalog \in Catalogs
    /\ policies = <<>>
    /\ nextPolicyId = 1
    /\ lastWrite = "none"
    /\ described = NoDescription
    /\ checkRendering \in Renderings \cup {NoPolicyTable}

DbIdle ==
    /\ catalog = {}
    /\ policies = <<>>
    /\ nextPolicyId = 1
    /\ lastWrite = "none"
    /\ described = NoDescription
    /\ checkRendering = NoPolicyTable

NextDb ==
    \/ \E row \in PolicyInputs : InsertPolicy(row)
    \/ \E id \in 1..MaxPolicies : DisablePolicy(id)
    \/ \E id \in 1..MaxPolicies, edit \in PolicyEdits : UpdatePolicy(id, edit)
    \/ \E name \in TableNames : Describe(name)

\* -------------------------------------------------- palmera-rest/utils.rs

\* 64-bit integers are written as four 16-bit limbs, most significant first
Limb == 2^16

\* serde_json::Number: PosInt(u64), NegInt(i64, negative) with the magnitude
\* in limbs, Float(f64) with the f64 named by its shortest decimal text
PosInt(limbs) == [variant |-> "PosInt", limbs |-> limbs]
NegInt(limbs) == [variant |-> "NegInt", limbs |-> limbs]
Float(text) == [variant |-> "Float", f |-> [integral |-> FALSE, text |-> text]]

JsonNull == [kind |-> "Null"]
JsonBool(b) == [kind |-> "Bool", b |-> b]
JsonNumber(n) == [kind |-> "Number", n |-> n]
JsonString(str) == [kind |-> "String", s |-> str]
JsonArray(items) == [kind |-> "Array", items |-> items]
JsonObject(map) == [kind |-> "Object", map |-> map]

\* the number of bits of a limb: 0 for 0, k for 2^(k-1) .. 2^k - 1
LimbBits(x) == CHOOSE k \in 0..16 : (k = 0 /\ x = 0) \/ (k > 0 /\ 2^(k-1) <= x /\ x < 2^k)

\* the number of bits of a four-limb magnitude
BitLength(limbs) ==
    IF limbs[1] > 0 THEN 48 + LimbBits(limbs[1])
    ELSE IF limbs[2] > 0 THEN 32 + LimbBits(limbs[2])
    ELSE IF limbs[3] > 0 THEN 16 + LimbBits(limbs[3])
    ELSE LimbBits(limbs[4])

RECURSIVE AddAt(_, _, _)
\* limbs plus k at limb i, the carry moving to the more significant limbs
AddAt(limbs, i, k) ==
    IF i = 0 THEN limbs
    ELSE LET sum == limbs[i] + k IN
         IF sum < Limb THEN [limbs EXCEPT ![i] = sum]
         ELSE AddAt([limbs EXCEPT ![i] = sum - Limb], i - 1, 1)

\* `n as f64` of a 64-bit integer: the nearest f64 (53 bits of precision,
\* ties to even), written as five limbs because rounding can reach 2^64
IntToF64(neg, limbs) ==
    LET bits == BitLength(limbs)
        shift == IF bits > 53 THEN bits - 53 ELSE 0
        unit == 2^shift
        rem == limbs[4] % unit
        quot == limbs[4] \div unit
        kept == <<0, limbs[1], limbs[2], limbs[3], limbs[4] - rem>>
        up == 2 * rem > unit \/ (2 * rem = unit /\ quot % 2 = 1)
    IN [integral |-> TRUE, neg |-> neg,
        limbs |-> IF up THEN AddAt(kept, 5, unit) ELSE kept]

\* Number::as_i64
AsI64(n) ==
    IF n.variant = "PosInt"
    THEN IF n.limbs[1] < 2^15 THEN Some([neg |-> FALSE, limbs |-> n.limbs]) ELSE Null
    ELSE IF n.variant = "NegInt"
    THEN Some([neg |-> TRUE, limbs |-> n.limbs])
    ELSE Null

\* Number::as_f64: Some for each of the three variants
AsF64(n) ==
    IF n.variant = "PosInt" THEN Some(IntToF64(FALSE, n.limbs))
    ELSE IF n.variant = "NegInt" THEN Some(IntToF64(TRUE, n.limbs))
    ELSE Some(n.f)

\* n.to_string(): the decimal text of the number
NumberToString(n) == [decimal_text_of |-> n]

\* json_to_sea
JsonToSea(value) ==
    IF value.kind = "Null" THEN [kind |-> "Bool", value |-> Null]
    ELSE IF value.kind = "Bool" THEN [kind |-> "Bool", value |-> Some(value.b)]
    ELSE IF value.kind = "Number"
    THEN IF AsI64(value.n) # Null
         THEN [kind |-> "BigInt", value |-> AsI64(value.n)]
         ELSE IF AsF64(value.n) # Null
         THEN [kind |-> "Double", value |-> AsF64(value.n)]
         ELSE [kind |-> "String", value |-> Some(NumberToString(value.n))]
    ELSE IF value.kind = "String" THEN [kind |-> "String", value |-> Some(value.s)]
    ELSE [kind |-> "Json", value |-> Some(value)]

\* the u64 values of PosInt: around 0, 2^53, i64::MAX and u64::MAX, with low
\* bits on both sides of the f64 rounding boundary
PosInts ==
    { PosInt(<<a, b, c, d>>) :
        a \in {0, 32, 32767, 32768, 65535}, b \in {0, 65535}, c \in {0, 65535},
        d \in {0, 1, 42, 1024, 1025, 3072, 65535} }

\* the negative i64 values of NegInt: -1, -42, -(2^63 - 1), i64::MIN
NegInts ==
    { NegInt(<<0, 0, 0, 1>>), NegInt(<<0, 0, 0, 42>>),
      NegInt(<<32767, 65535, 65535, 65535>>), NegInt(<<32768, 0, 0, 0>>) }

Floats == { Float("3.14"), Float("-0.5"), Float("1.0"), Float("1e20") }

Strings == { "", "text", "42" }

\* the elements of arrays and the members of objects
NestedValues ==
    { JsonNull, JsonBool(TRUE), JsonNumber(PosInt(<<0, 0, 0, 42>>)),
      JsonNumber(PosInt(<<32768, 0, 0, 0>>)), JsonNumber(Float("3.14")),
      JsonString("text") }

ObjectKeys == {"a", "b"}

\* the values json_to_sea is called with
JsonValues ==
    {JsonNull}
    \cup { JsonBool(b) : b \in BOOLEAN }
    \cup { JsonNumber(n) : n \in PosInts \cup NegInts \cup Floats }
    \cup { JsonString(str) : str \in Strings }
    \cup { JsonArray(items) :
             items \in UNION { [1..n -> NestedValues] : n \in 0..MaxItems } }
    \cup { JsonObject(map) :
             map \in UNION { [K -> NestedValues] : K \in SUBSET ObjectKeys } }

\* one call of json_to_sea
MapValue ==
    /\ jsonValue # NoValue
    /\ seaValue = NoValue
    /\ seaValue' = JsonToSea(jsonValue)
    /\ UNCHANGED jsonValue
    /\ UNCHANGED <<jwtVars, restVars, dbVars, authVars, hookVars, storageVars>>

MapIdle ==
    /\ jsonValue = NoValue
    /\ seaValue = NoValue

NextMap == MapValue

\* ------------------------------------------------ palmera-auth/router.rs

\* Duration::seconds(3600), in milliseconds
LoginTtl == 3600 * 1000

\* the AuthConfig of the service
LoginConfig == [issuer |-> ConfigIssuer, audience |-> ConfigAudience, key |-> "supersecretkey"]

ValidEmails == {"a@example.com", "b@example.com"}

\* the emails a form can carry: two addresses and a text that is no address
FormEmails == ValidEmails \cup {"not-an-email"}

Passwords == {"rightpass", "wrongpass"}

\* #[validate(email)]
IsEmail(email) == email \in ValidEmails

\* the Argon2 hash AuthUser::new stores for a password (the salt is left out:
\* a hash verifies exactly the password it was made from)
HashPassword(password) == [argon2 |-> password]

\* AuthUser::verify_password
VerifyPassword(user, password) == user.password = HashPassword(password)

NoUser == [none |-> TRUE]

\* find_by_email failing for another reason than RowNotFound
QueryFailed == [failed |-> TRUE]

\* AuthUser::new(email, password), the k-th user made, with its Uuid::new_v4()
NewUser(k, email, password) ==
    [id |-> [uuid |-> k], email |-> email, password |-> HashPassword(password)]

LoginForms == [email : FormEmails, password : Passwords]

\* Err(StatusCode::BAD_REQUEST): the status with an empty body
BadRequest == [status |-> 400, body |-> [empty |-> TRUE]]

\* login answering 404 when find_by_email finds no user
LoginResult_NotFoundDistinct(form, found, dbFault, t, jti) ==
    IF ~IsEmail(form.email) THEN BadRequest
    ELSE IF dbFault THEN BadRequest
    ELSE IF found = NoUser THEN [status |-> 404, body |-> [empty |-> TRUE]]
    ELSE IF ~VerifyPassword(found, form.password) THEN BadRequest
    ELSE [status |-> 200,
          body |-> [token |-> SignToken(NewClaims(found.id, LoginTtl,
                                  LoginConfig.issuer, LoginConfig.audience, t, jti),
                              LoginConfig.key)]]

\* login: found is the row find_by_email fetched (NoUser for RowNotFound),
\* dbFault a failure of the query.  Signing with an HMAC key does not fail.
LoginResult(form, found, dbFault, t, jti) ==
    IF ~IsEmail(form.email) THEN BadRequest
    ELSE IF dbFault \/ found = NoUser THEN BadRequest
    ELSE IF ~VerifyPassword(found, form.password) THEN BadRequest
    ELSE [status |-> 200,
          body |-> [token |-> SignToken(NewClaims(found.id, LoginTtl,
                                  LoginConfig.issuer, LoginConfig.audience, t, jti),
                              LoginConfig.key)]]

\* AuthUser::new(email, password).insert(db): the row is added to auth.users
\* (an insert that fails leaves the table as it was)
InsertUser(email, password) ==
    /\ Cardinality(authUsers) < MaxUsers
    /\ authUsers' = authUsers \cup {NewUser(Cardinality(authUsers) + 1, email, password)}
    /\ UNCHANGED loginCalls
    /\ UNCHANGED <<jwtVars, restVars, dbVars, mapVars, hookVars, storageVars>>

\* login up to its await: form.validate() answers 400 at once, otherwise
\* find_by_email is called and login waits for it
LoginStart(i) ==
    /\ loginCalls # <<>>
    /\ loginCalls[i].pc = "start"
    /\ IF ~IsEmail(loginCalls[i].form.email)
       THEN loginCalls' = [loginCalls EXCEPT
                ![i].response = LoginResult(loginCalls[i].form, NoUser, FALSE, now, nextJti),
                ![i].pc = "done"]
       ELSE loginCalls' = [loginCalls EXCEPT ![i].pc = "find_by_email"]
    /\ UNCHANGED authUsers
    /\ UNCHANGED <<jwtVars, restVars, dbVars, mapVars, hookVars, storageVars>>

\* the database answers find_by_email: fetch_one gives one of the rows that
\* have the email, RowNotFound when there is none, or another error
FindByEmail(i, found) ==
    /\ loginCalls # <<>>
    /\ loginCalls[i].pc = "find_by_email"
    /\ \/ found = QueryFailed
       \/ found \in authUsers /\ found.email = loginCalls[i].form.email
       \/ /\ found = NoUser
          /\ ~ \E u \in authUsers : u.email = loginCalls[i].form.email
    /\ loginCalls' = [loginCalls EXCEPT ![i].found = found, ![i].pc = "resumed"]
    /\ UNCHANGED authUsers
    /\ UNCHANGED <<jwtVars, restVars, dbVars, mapVars, hookVars, storageVars>>

\* login after its await: the password is verified, the claims are made at
\* the present instant and signed
LoginAnswer(i) ==
    /\ loginCalls # <<>>
    /\ loginCalls[i].pc = "resumed"
    /\ LET call == loginCalls[i]
           result == LoginResult(call.form,
                                 IF call.found = QueryFailed THEN NoUser ELSE call.found,
                                 call.found = QueryFailed, now, nextJti)
       IN
       /\ loginCalls' = [loginCalls EXCEPT ![i].response = result, ![i].pc = "done"]
       /\ nextJti' = IF result.status = 200 THEN nextJti + 1 ELSE nextJti
    /\ UNCHANGED authUsers
    /\ UNCHANGED <<now, issued, claims, token, vcall, outcomes>>
    /\ UNCHANGED <<restVars, dbVars, mapVars, hookVars, storageVars>>

AuthIdle ==
    /\ authUsers = {}
    /\ loginCalls = <<>>

\* a database without users and two login requests that have arrived
InitAuth ==
    /\ authUsers = {}
    /\ loginCalls \in [1..2 -> [form : LoginForms, pc : {"start"},
                                found : {NoUser}, response : {NoResponse}]]

NextAuth ==
    \/ \E email \in ValidEmails, password \in Passwords : InsertUser(email, password)
    \/ \E i \in 1..2 : LoginStart(i)
    \/ \E i \in 1..2, found \in authUsers \cup {NoUser, QueryFailed} :
          FindByEmail(i, found)
    \/ \E i \in 1..2 : LoginAnswer(i)

\* -------------------------------------------------- palmera-core/hook.rs

NoHookCall == [op |-> "none"]

\* generate_hook_id: a fresh UUID, named by the ordinal of the bind that drew it
GenerateHookId(k) == [uuid |-> k]

\* an id text chosen by the caller of unbind
GivenId(text) == [text |-> text]

\* the Handler values given to bind: id None (the fields of Handler are
\* private and every Handler built in the crate has id None), priority None
\* or Some(-1), Some(0), Some(1), and a closure that returns Ok or Err
HandlerInputs ==
    [id : {Null},
     priority : {Null, Some(0 - 1), Some(0), Some(1)},
     fails : BOOLEAN]

\* the ids unbind is called with
UnbindIds ==
    {GivenId("nonexistent")} \cup {GenerateHookId(k) : k \in 1..MaxBinds}

\* the sort key with a missing priority counted as the largest i16
PriorityKey_NoneLast(h) == IF h.priority = Null THEN 2^15 - 1 ELSE h.priority.some

\* h.priority.unwrap_or(0)
PriorityKey(h) == IF h.priority = Null THEN 0 ELSE h.priority.some

\* h placed behind every handler of the sorted list whose key is not larger
InsertStable(sorted, h) ==
    LET keep == { i \in 1..Len(sorted) : PriorityKey(sorted[i]) <= PriorityKey(h) }
        n == Cardinality(keep)
    IN SubSeq(sorted, 1, n) \o <<h>> \o SubSeq(sorted, n + 1, Len(sorted))

RECURSIVE SortByKey(_)
\* handlers.sort_by_key(|h| h.priority.unwrap_or(0)): a stable sort
SortByKey(hs) ==
    IF hs = <<>> THEN <<>>
    ELSE InsertStable(SortByKey(SubSeq(hs, 1, Len(hs) - 1)), hs[Len(hs)])

\* retain with the test turned round: keeps the handlers carrying the id
RetainOthers_CarriersKept(hs, id) ==
    LET Carrier(h) == h.id = Some(id) IN SelectSeq(hs, Carrier)

\* handlers.retain(|handler| handler.id.as_deref() != Some(&id))
RetainOthers(hs, id) ==
    LET Other(h) == h.id # Some(id) IN SelectSeq(hs, Other)

\* the result of one handler call: Ok or Err, with the closure that made it
CallHandler(h) == [ok |-> ~h.func.fails, value |-> h.func.fn]

\* no call of trigger is under way
NoRun == [called |-> 0]

\* a loop that ends at the first handler error
Continues_StopAtError(hs, called, result) == result.ok /\ called < Len(hs)

\* `for handler in &self.handlers`: after a handler's result is pushed the
\* loop goes on to the next handler, whatever the result
Continues(hs, called, result) == called < Len(hs)

\* Hook::bind (&mut self: not while a trigger of the hook is under way)
Bind(input) ==
    /\ triggerRun = NoRun
    /\ bindCount < MaxBinds
    /\ LET k == bindCount + 1
           handler == [func |-> [fn |-> k, fails |-> input.fails],
                       id |-> IF input.id = Null THEN Some(GenerateHookId(k))
                              ELSE input.id,
                       priority |-> input.priority]
       IN /\ handlers' = SortByKey(Append(handlers, handler))
          /\ bindCount' = k
          /\ hookCall' = [op |-> "bind", before |-> handlers,
                          returned |-> handler.id.some]
    /\ UNCHANGED triggerRun
    /\ UNCHANGED <<jwtVars, restVars, dbVars, mapVars, authVars, storageVars>>

\* Hook::unbind (&mut self); after_bind keeps, when the call before was a bind, the id
\* that bind returned and the length() before it
Unbind(id) ==
    /\ triggerRun = NoRun
    /\ handlers' = RetainOthers(handlers, id)
    /\ hookCall' = [op |-> "unbind", before |-> handlers, id |-> id,
                    result |-> IF Len(RetainOthers(handlers, id)) = Len(handlers)
                               THEN "Err" ELSE "Ok",
                    after_bind |-> IF hookCall.op = "bind"
                                   THEN [id |-> hookCall.returned,
                                         length |-> Len(hookCall.before)]
                                   ELSE NoHookCall]
    /\ UNCHANGED <<bindCount, triggerRun>>
    /\ UNCHANGED <<jwtVars, restVars, dbVars, mapVars, authVars, storageVars>>

\* Hook::trigger, first poll: the first handler is called and awaited; with
\* no handler the call returns at once
TriggerStart ==
    /\ triggerRun = NoRun
    /\ IF handlers = <<>>
       THEN /\ hookCall' = [op |-> "trigger", before |-> handlers, results |-> <<>>]
            /\ UNCHANGED triggerRun
       ELSE /\ triggerRun' = [called |-> 1, results |-> <<>>]
            /\ UNCHANGED hookCall
    /\ UNCHANGED <<handlers, bindCount>>
    /\ UNCHANGED <<jwtVars, restVars, dbVars, mapVars, authVars, storageVars>>

\* the awaited handler completes: its result is pushed, and the next handler
\* is called and awaited or, after the last, the results are returned
HandlerResumed ==
    /\ triggerRun # NoRun
    /\ LET result == CallHandler(handlers[triggerRun.called])
           results == Append(triggerRun.results, result)
       IN
       IF Continues(handlers, triggerRun.called, result)
       THEN /\ triggerRun' = [called |-> triggerRun.called + 1, results |-> results]
            /\ UNCHANGED hookCall
       ELSE /\ hookCall' = [op |-> "trigger", before |-> handlers, results |-> results]
            /\ triggerRun' = NoRun
    /\ UNCHANGED <<handlers, bindCount>>
    /\ UNCHANGED <<jwtVars, restVars, dbVars, mapVars, authVars, storageVars>>

\* the future of trigger is dropped while a handler is awaited: the handlers
\* after it are never called and nothing is returned
TriggerDropped ==
    /\ triggerRun # NoRun
    /\ hookCall' = [op |-> "trigger_dropped", before |-> handlers,
                    called |-> triggerRun.called, results |-> triggerRun.results]
    /\ triggerRun' = NoRun
    /\ UNCHANGED <<handlers, bindCount>>
    /\ UNCHANGED <<jwtVars, restVars, dbVars, mapVars, authVars, storageVars>>

\* Hook::new
HookIdle ==
    /\ handlers = <<>>
    /\ bindCount = 0
    /\ hookCall = NoHookCall
    /\ triggerRun = NoRun

NextHook ==
    \/ \E input \in HandlerInputs : Bind(input)
    \/ \E id \in UnbindIds : Unbind(id)
    \/ TriggerStart
    \/ HandlerResumed
    \/ TriggerDropped

\* --------------------------------------------- palmera-storage/local.rs

NoStorageCall == [op |-> "none"]

\* a map with no key
EmptyMap == [k \in {} |-> {}]

\* the map m with key k set to v
Put(m, k, v) == [x \in DOMAIN m \cup {k} |-> IF x = k THEN v ELSE m[x]]

StorageIds == {"example", "other"}

FileNames == {"test-file.txt", "second.txt"}

\* file contents, as sequences of bytes (each shorter than the buffer of
\* tokio's File, so that write_all hands it over in one piece)
Contents == { <<72>>, <<72, 105>> }

FileOk(value) == [ok |-> TRUE, value |-> value]

\* FileStorageError::Local(err)
LocalError(kind) == [ok |-> FALSE, error |-> "Local", kind |-> kind]

\* LocalStorage::download
DownloadResult(dirs, id, name) ==
    IF id \in DOMAIN dirs /\ name \in DOMAIN dirs[id]
    THEN FileOk(dirs[id][name])
    ELSE LocalError("NotFound")

\* LocalStorage::list, the entries coming in the order read_dir yields them
ListResult(dirs, id, order) ==
    IF id \in DOMAIN dirs THEN FileOk(order) ELSE LocalError("NotFound")

\* the orders read_dir can yield the entries of a directory in
EntryOrders(dirs, id) ==
    IF id \in DOMAIN dirs
    THEN { o \in [1..Cardinality(DOMAIN dirs[id]) -> DOMAIN dirs[id]] :
             \A i \in DOMAIN o : \A j \in DOMAIN o : o[i] = o[j] => i = j }
    ELSE { <<>> }

\* upload returns result
Return(i, result) ==
    uploadCalls' = [uploadCalls EXCEPT ![i].result = result, ![i].pc = "done"]

\* tokio::fs::create_dir(base_dir.join(id)).await: it fails when the
\* directory exists, or for another reason (fault), and upload returns the
\* Local error; otherwise the directory is there, empty
CreateDir(i, fault) ==
    /\ uploadCalls # <<>>
    /\ uploadCalls[i].pc = "create_dir"
    /\ IF uploadCalls[i].id \in DOMAIN fs
       THEN Return(i, LocalError("AlreadyExists")) /\ UNCHANGED fs
       ELSE IF fault
       THEN Return(i, LocalError("Other")) /\ UNCHANGED fs
       ELSE /\ fs' = Put(fs, uploadCalls[i].id, EmptyMap)
            /\ uploadCalls' = [uploadCalls EXCEPT ![i].pc = "create_new"]
    /\ UNCHANGED <<pending, storageCall>>
    /\ UNCHANGED <<jwtVars, restVars, dbVars, mapVars, authVars, hookVars>>

\* tokio::fs::File::create_new(path).await: it fails when the file exists, or
\* for another reason (fault); otherwise the file is there, empty
CreateNew(i, fault) ==
    /\ uploadCalls # <<>>
    /\ uploadCalls[i].pc = "create_new"
    /\ LET call == uploadCalls[i] IN
       IF call.name \in DOMAIN fs[call.id]
       THEN Return(i, LocalError("AlreadyExists")) /\ UNCHANGED fs
       ELSE IF fault
       THEN Return(i, LocalError("Other")) /\ UNCHANGED fs
       ELSE /\ fs' = Put(fs, call.id, Put(fs[call.id], call.name, <<>>))
            /\ uploadCalls' = [uploadCalls EXCEPT ![i].pc = "write_all"]
    /\ UNCHANGED <<pending, storageCall>>
    /\ UNCHANGED <<jwtVars, restVars, dbVars, mapVars, authVars, hookVars>>

\* file.write_all(bytes).await: tokio's File copies the bytes into its buffer,
\* hands the write to a blocking task and reports Ok; upload returns Ok(())
\* without flush, and the file is dropped with the write still to come
WriteAll(i) ==
    /\ uploadCalls # <<>>
    /\ uploadCalls[i].pc = "write_all"
    /\ pending' = pending \cup {[id |-> uploadCalls[i].id, name |-> uploadCalls[i].name,
                                 bytes |-> uploadCalls[i].bytes]}
    /\ Return(i, FileOk(<<>>))
    /\ UNCHANGED <<fs, storageCall>>
    /\ UNCHANGED <<jwtVars, restVars, dbVars, mapVars, authVars, hookVars>>

\* the blocking task performs a buffered write: the file gets the bytes, or
\* only the first `written` of them when the write fails, which nobody
\* is told
BackgroundWrite(w, written) ==
    /\ w \in pending
    /\ written \in 0..Len(w.bytes)
    /\ fs' = Put(fs, w.id, Put(fs[w.id], w.name, SubSeq(w.bytes, 1, written)))
    /\ pending' = pending \ {w}
    /\ UNCHANGED <<uploadCalls, storageCall>>
    /\ UNCHANGED <<jwtVars, restVars, dbVars, mapVars, authVars, hookVars>>

\* one call of download
DownloadCall(id, name) ==
    /\ storageCall' = [op |-> "download", id |-> id, name |-> name,
                       result |-> DownloadResult(fs, id, name)]
    /\ storageCall' # storageCall
    /\ UNCHANGED <<fs, uploadCalls, pending>>
    /\ UNCHANGED <<jwtVars, restVars, dbVars, mapVars, authVars, hookVars>>

\* one call of list
ListCall(id, order) ==
    /\ order \in EntryOrders(fs, id)
    /\ storageCall' = [op |-> "list", id |-> id,
                       result |-> ListResult(fs, id, order)]
    /\ storageCall' # storageCall
    /\ UNCHANGED <<fs, uploadCalls, pending>>
    /\ UNCHANGED <<jwtVars, restVars, dbVars, mapVars, authVars, hookVars>>

\* LocalStorage::new on an empty base directory
StorageIdle ==
    /\ fs = EmptyMap
    /\ uploadCalls = <<>>
    /\ pending = {}
    /\ storageCall = NoStorageCall

\* an empty base directory and two calls of upload that have been made
InitUploads ==
    /\ fs = EmptyMap
    /\ uploadCalls \in [1..2 -> [id : StorageIds, name : FileNames, bytes : Contents,
                                 pc : {"create_dir"}, result : {[none |-> TRUE]}]]
    /\ pending = {}
    /\ storageCall = NoStorageCall

NextStorage ==
    \/ \E i \in 1..2, fault \in BOOLEAN : CreateDir(i, fault)
    \/ \E i \in 1..2, fault \in BOOLEAN : CreateNew(i, fault)
    \/ \E i \in 1..2 : WriteAll(i)
    \/ \E w \in pending, written \in 0..2 : BackgroundWrite(w, written)
    \/ \E id \in StorageIds, name \in FileNames : DownloadCall(id, name)
    \/ \E id \in StorageIds : \E order \in EntryOrders(fs, id) : ListCall(id, order)

Init == InitJwt /\ RestIdle /\ DbIdle /\ MapIdle /\ AuthIdle /\ HookIdle /\ StorageIdle

Next == NextJwt \/ NextRest \/ NextDb \/ NextMap \/ NextAuth \/ NextHook \/ NextStorage

Spec == Init /\ [][Next]_vars

\* the claims issuer/verifier alone
SpecJwt == Init /\ [][NextJwt]_vars

\* a request of Requests has arrived and is about to be handled
InitRequest == InitJwt /\ InitRest /\ DbIdle /\ MapIdle /\ AuthIdle /\ HookIdle /\ StorageIdle

\* the insert handler alone, for every request of Requests
SpecRest == InitRequest /\ [][NextRest]_vars

\* the rows of the policy store the handler runs against: for table a, a
\* permissive insert policy, a permissive policy for all operations, a
\* restrictive insert policy, a permissive select policy, and a disabled
\* permissive insert policy
RestPolicyKinds ==
    { [is_enabled |-> 1, operation |-> "insert", policy_type |-> "PERMISSIVE",
       using_expr |-> Null, check_expr |-> Some(<<"check_1">>)],
      [is_enabled |-> 1, operation |-> "all", policy_type |-> "PERMISSIVE",
       using_expr |-> Some(<<"using_2">>), check_expr |-> Some(<<"check_2">>)],
      [is_enabled |-> 1, operation |-> "insert", policy_type |-> "RESTRICTIVE",
       using_expr |-> Null, check_expr |-> Some(<<"check_3">>)],
      [is_enabled |-> 1, operation |-> "select", policy_type |-> "PERMISSIVE",
       using_expr |-> Some(<<"using_4">>), check_expr |-> Null],
      [is_enabled |-> 0, operation |-> "insert", policy_type |-> "PERMISSIVE",
       using_expr |-> Null, check_expr |-> Some(<<"check_5">>)] }

\* the policy stores: up to MaxPolicies rows for table a
RestPolicyStores ==
    { [i \in 1..n |->
         [id |-> i, name |-> <<"p", i>>, description |-> Null,
          is_enabled |-> ks[i].is_enabled, table_name |-> <<"a">>,
          operation |-> ks[i].operation, policy_type |-> ks[i].policy_type,
          using_expr |-> ks[i].using_expr, check_expr |-> ks[i].check_expr]] :
        n \in 0..MaxPolicies, ks \in [1..MaxPolicies -> RestPolicyKinds] }

\* requests for a table with policies (a) and for one without (_a)
PolicyRequests ==
    { r \in Requests : r.schema = <<"a">> /\ r.table \in {<<"a">>, <<"_", "a">>} }

\* the handler over a populated policy store
InitRestPolicies ==
    /\ InitJwt
    /\ request \in PolicyRequests
    /\ CreateStart
    /\ catalog = {}
    /\ checkRendering \in Renderings
    /\ policies \in RestPolicyStores
    /\ checkRendering = "literal" => policies = <<>>
    /\ nextPolicyId = Len(policies) + 1
    /\ lastWrite = "none"
    /\ described = NoDescription
    /\ MapIdle /\ AuthIdle /\ HookIdle /\ StorageIdle

SpecRestPolicies == InitRestPolicies /\ [][NextRest]_vars

\* the handler over the requests of one schema and an empty policy store
InitRestOneSchema ==
    /\ InitJwt
    /\ request \in PolicyRequests
    /\ CreateStart
    /\ DbIdle
    /\ MapIdle /\ AuthIdle /\ HookIdle /\ StorageIdle

SpecRestOneSchema == InitRestOneSchema /\ [][NextRest]_vars

\* the catalog reader alone, over a database drawn at the start
InitCatalog == InitJwt /\ RestIdle /\ InitDb /\ MapIdle /\ AuthIdle /\ HookIdle /\ StorageIdle

SpecCatalog == InitCatalog /\ [][NextDb]_vars

\* the value mapper alone, over a value drawn at the start
InitMapper ==
    /\ InitJwt
    /\ RestIdle
    /\ DbIdle
    /\ jsonValue \in JsonValues
    /\ seaValue = NoValue
    /\ AuthIdle /\ HookIdle /\ StorageIdle

SpecMapper == InitMapper /\ [][NextMap]_vars

\* login alone, over a user table and two forms drawn at the start
InitLogin ==
    /\ InitJwt
    /\ RestIdle
    /\ DbIdle
    /\ MapIdle /\ HookIdle /\ StorageIdle
    /\ InitAuth

SpecLogin == InitLogin /\ [][NextAuth]_vars

\* one Hook alone, from Hook::new
InitHook ==
    /\ InitJwt
    /\ RestIdle
    /\ DbIdle
    /\ MapIdle /\ AuthIdle /\ StorageIdle
    /\ HookIdle

SpecHook == InitHook /\ [][NextHook]_vars

\* one LocalStorage alone, from an empty base directory
InitStorage ==
    /\ InitJwt
    /\ RestIdle
    /\ DbIdle
    /\ MapIdle /\ AuthIdle /\ HookIdle
    /\ InitUploads

SpecStorage == InitStorage /\ [][NextStorage]_vars

\* ------------------------------------------------ claims about jwt.rs

\* the latest verify call ran on the token in circulation and its signature
\* check passed
SignatureChecked == vcall # NoCall /\ SignatureVerifies(token, vcall.key)

\* C1 as stated: for a token whose signature verifies, verify fails with
\* Expired whenever now > expiration and with NotYetValid whenever
\* now < not_before, and returns no claims in either case.
C1_AsStated ==
    SignatureChecked =>
        /\ (vcall.at > token.payload.exp =>
                vcall.kind = "Expired" /\ vcall.claims = NoClaims)
        /\ (vcall.at < token.payload.nbf =>
                vcall.kind = "NotYetValid" /\ vcall.claims = NoClaims)

\* C1 amended: for a token whose signature verifies, verify fails with
\* Expired whenever now > expiration, and with NotYetValid whenever
\* now < not_before and not now > expiration (a token with
\* expiration < now < not_before is reported Expired); it returns no claims
\* in any of these cases.
C1_ExpiredThenNotYetValid ==
    SignatureChecked =>
        /\ (vcall.at > token.payload.exp =>
                vcall.kind = "Expired" /\ vcall.claims = NoClaims)
        /\ (vcall.at < token.payload.nbf /\ ~(vcall.at > token.payload.exp) =>
                vcall.kind = "NotYetValid" /\ vcall.claims = NoClaims)
        /\ (vcall.at < token.payload.nbf => vcall.claims = NoClaims)

\* C1 witness: a correctly signed token verified before its not_before and
\* not after its expiration was rejected as NotYetValid
C1_Witness ==
    /\ SignatureChecked
    /\ vcall.at < token.payload.nbf
    /\ vcall.at <= token.payload.exp
    /\ vcall.kind = "NotYetValid"

\* C2 as stated: with a valid signature and a valid time window, verify fails
\* with AudienceMismatch (IssuerMismatch) whenever the token's audience
\* (issuer) differs from the value the verifying service expects; a token
\* issued for another audience is never accepted.
C2_AudienceIssuerChecked ==
    (/\ SignatureChecked
     /\ token.payload.nbf <= vcall.at
     /\ vcall.at < token.payload.exp) =>
        /\ (token.payload.aud # ConfigAudience /\ token.payload.iss = ConfigIssuer =>
                vcall.kind = "AudienceMismatch")
        /\ (token.payload.iss # ConfigIssuer /\ token.payload.aud = ConfigAudience =>
                vcall.kind = "IssuerMismatch")
        /\ (token.payload.aud # ConfigAudience => vcall.kind # "Ok")

\* C3: verify under a key other than the signing key, or of a token whose
\* signature was altered, fails with a signature error and returns no claims,
\* whatever the time window, issuer and audience of the token.
C3_WrongKeyOrAlteredSignatureRejected ==
    (/\ vcall # NoCall
     /\ (vcall.key # token.signature.key \/ token.signature.altered)) =>
        vcall.kind = "SignatureInvalid" /\ vcall.claims = NoClaims

\* C3 witness: an expired token for another audience, verified under a key
\* other than its signing key, was rejected for its signature
C3_Witness ==
    /\ vcall # NoCall
    /\ vcall.key # token.signature.key
    /\ vcall.at > token.payload.exp
    /\ token.payload.aud # ConfigAudience
    /\ vcall.kind = "SignatureInvalid"

\* the first failing check in the order signature, expiration, not-before,
\* audience/issuer, for the latest verify call
FirstFailingCheck ==
    IF ~SignatureVerifies(token, vcall.key) THEN "SignatureInvalid"
    ELSE IF vcall.at > token.payload.exp THEN "Expired"
    ELSE IF vcall.at < token.payload.nbf THEN "NotYetValid"
    ELSE IF token.payload.aud # ConfigAudience THEN "AudienceMismatch"
    ELSE IF token.payload.iss # ConfigIssuer THEN "IssuerMismatch"
    ELSE "Ok"

\* C4 as stated: verify reports the first failing check in the fixed order
\* signature, expiration, not-before, audience/issuer, and nothing else.
C4_ReportsFirstFailingCheck ==
    vcall # NoCall => vcall.kind = FirstFailingCheck

\* C5: claims issued with a positive ttl, signed with key k and verified with
\* the same key before the ttl has elapsed are accepted, and the claims
\* returned equal the issued ones in every field.
C5_IssueSignVerifyRoundTrip ==
    (/\ vcall # NoCall
     /\ issued # NoIssue
     /\ issued.ttl > 0
     /\ claims = issued.claims
     /\ token = SignToken(claims, vcall.key)
     /\ vcall.at - issued.at < issued.ttl) =>
        /\ vcall.kind = "Ok"
        /\ vcall.claims = issued.claims
        /\ vcall.claims.subject = issued.claims.subject
        /\ vcall.claims.jwt_token_id = issued.claims.jwt_token_id

\* C5 witness: such a round trip happened, at the instant of issuance
C5_Witness ==
    /\ vcall # NoCall
    /\ issued # NoIssue
    /\ issued.ttl > 0
    /\ claims = issued.claims
    /\ token = SignToken(claims, vcall.key)
    /\ vcall.at = issued.at
    /\ vcall.kind = "Ok"

\* C6 as stated: every value returned by JWTClaims::new satisfies
\* not_before <= issued_at < expiration, for every ttl.
C6_AsStated ==
    issued # NoIssue =>
        /\ issued.claims.not_before_time <= issued.claims.issued_at
        /\ issued.claims.issued_at < issued.claims.expiration

\* C6 amended: every value returned by JWTClaims::new has issued_at = now,
\* not_before = now - skew <= issued_at and expiration = now + ttl, for every
\* ttl; issued_at < expiration holds exactly when the ttl is positive.
C6_IssuedWindow ==
    issued # NoIssue =>
        /\ issued.claims.issued_at = issued.at
        /\ issued.claims.not_before_time = issued.at - Skew
        /\ issued.claims.expiration = issued.at + issued.ttl
        /\ issued.claims.not_before_time <= issued.claims.issued_at
        /\ (issued.claims.issued_at < issued.claims.expiration <=> issued.ttl > 0)

\* C6 witness: claims were issued with a negative ttl
C6_Witness ==
    /\ issued # NoIssue
    /\ issued.ttl < 0
    /\ issued.claims.expiration < issued.claims.issued_at

\* C7 as stated: a correctly signed token is accepted exactly while
\* not_before <= now < expiration.
C7_ValidExactlyInHalfOpenWindow ==
    SignatureChecked =>
        (vcall.kind = "Ok" <=>
            (token.payload.nbf <= vcall.at /\ vcall.at < token.payload.exp))

\* position of an outcome on the path NotYetValid, Valid, Expired
Rank(kind) ==
    CASE kind = "NotYetValid" -> 1
      [] kind = "Ok" -> 2
      [] kind = "Expired" -> 3
      [] OTHER -> 0

\* C8: with a clock that never goes backwards the outcomes of the successive
\* verifications of one correctly signed token only move forward along
\* NotYetValid, Valid, Expired (so nothing succeeds after an Expired), and a
\* verify with the right key inside the window succeeds whatever was
\* verified before.
C8_OutcomesOnlyMoveForward ==
    /\ \A i, j \in 1..Len(outcomes) :
          i < j => Rank(outcomes[i]) < Rank(outcomes[j])
    /\ (/\ SignatureChecked
        /\ token.payload.nbf <= vcall.at
        /\ vcall.at < token.payload.exp) => vcall.kind = "Ok"

\* C8 witness: one token was verified as NotYetValid, then Valid, then Expired
C8_Witness == outcomes = <<"NotYetValid", "Ok", "Expired">>

\* ------------------------------------- claims about palmera-rest/router.rs

\* the identifier shape [A-Za-z_][A-Za-z0-9_]*
IsIdentShape(name) ==
    /\ Len(name) >= 1
    /\ name[1] \in {"a", "_"}
    /\ \A i \in 1..Len(name) : name[i] \in {"a", "1", "_"}

\* the name contains a quote, a semicolon or whitespace
HasForbiddenChar(name) ==
    \E i \in 1..Len(name) : name[i] \in {"\"", "'", ";", " "}

\* C9 as stated: no schema, table or column identifier of the request
\* reaches the text of the insert statement (its RETURNING expression
\* included) unless it has the identifier shape.
C9_OnlyCheckedIdentifiersInStatement ==
    statement # NoStatement =>
        /\ IsIdentShape(request.schema)
        /\ IsIdentShape(request.table)
        /\ \A i \in 1..Len(request.parts) : IsIdentShape(request.parts[i].name)

\* C10 as stated: for a request whose body was read, building the insert
\* fails before any statement is produced or executed when a column name
\* contains a quote, a semicolon or whitespace, and produces a statement
\* when every column name has the identifier shape.
C10_InvalidColumnSetRejected ==
    (response # NoResponse /\ response.failed \notin {"begin", "multipart", "upload"}) =>
        /\ ((\E i \in 1..Len(request.parts) : HasForbiddenChar(request.parts[i].name)) =>
                statement = NoStatement /\ ~executed /\ trx # "committed")
        /\ ((/\ Len(request.parts) > 0
             /\ \A i \in 1..Len(request.parts) : IsIdentShape(request.parts[i].name)) =>
                statement # NoStatement)

\* the text v occurs in the statement text
OccursIn(v, text) ==
    \E i \in 1..Len(text) :
        i + Len(v) - 1 <= Len(text) /\ SubSeq(text, i, i + Len(v) - 1) = v

\* C11 as stated: every payload value of the generated statement is carried
\* as a bound parameter, and the SQL text handed to the executor contains no
\* rendering of a payload value.
C11_ValuesBoundNotInlined ==
    statement # NoStatement =>
        LET fields == CollectFields(request.parts) IN
        /\ Len(statement.params) = Cardinality(DOMAIN fields)
        /\ {statement.params[i] : i \in 1..Len(statement.params)}
              = {fields[n] : n \in DOMAIN fields}
        /\ \A n \in DOMAIN fields : ~OccursIn(fields[n], statement.text)

\* the policy applies to an operation on a table: it is a row for that table,
\* enabled, written for the operation or for all operations
Applies(p, table, op) ==
    /\ p.table_name = table
    /\ p.is_enabled = 1
    /\ p.operation \in {op, "all"}

\* the policies of the store that apply to the request's insert
InsertPolicies ==
    { policies[i] : i \in { j \in 1..Len(policies) :
                              Applies(policies[j], request.table, "insert") } }

\* C12 as stated: the statement built by create carries the applicable check
\* predicate: the check expression of every enabled policy that applies to the
\* insert (the permissive ones ORed, every restrictive one ANDed) is part of
\* the statement text.
C12_StatementCarriesCheckPredicate ==
    statement # NoStatement =>
        \A p \in InsertPolicies :
            p.check_expr # Null => OccursIn(p.check_expr.some, statement.text)

\* C13 as stated: when the table has an enabled policy but no enabled
\* permissive policy for the insert, the predicate is false and no write takes
\* effect.
C13_DefaultDeny ==
    ( /\ request # NoRequest
      /\ \E i \in 1..Len(policies) :
            policies[i].table_name = request.table /\ policies[i].is_enabled = 1
      /\ \A p \in InsertPolicies : p.policy_type # "PERMISSIVE" )
    => trx # "committed"

\* C14 as stated: a request that fails at any point (begin, multipart
\* parsing, the statement's execution, the commit) ends with its transaction
\* not committed.
C14_AsStated ==
    (response # NoResponse /\ response.failed # "none") =>
        trx \in {"none", "rolled_back"}

\* C14 amended: a request that fails before the commit (begin, multipart
\* parsing, the statement's execution) ends with its transaction not
\* committed; a transaction is committed only from the commit that follows
\* the insert's returned row, so a committed transaction is one whose
\* statement was executed; and a request answered without error is committed.
C14_FailedRequestNotCommitted ==
    /\ [](response # NoResponse =>
            /\ response.failed \notin {"none", "commit"} => trx \in {"none", "rolled_back"}
            /\ response.failed = "none" => trx = "committed")
    /\ [](trx = "committed" =>
            executed /\ statement # NoStatement /\ DOMAIN fieldMap # {})
    /\ [][trx' = "committed" /\ trx # "committed" => createPc = "commit"]_vars

\* C14 witness: an insert that was executed and then failed, rolled back
C14_Witness ==
    /\ response # NoResponse
    /\ response.failed = "execute"
    /\ executed
    /\ trx = "rolled_back"

\* C15 as stated: an insert whose payload has zero columns fails with
\* EmptyWriteSet and no statement is executed.
C15_EmptyWriteSetRejected ==
    ( /\ request # NoRequest
      /\ response # NoResponse
      /\ DOMAIN CollectFields(request.parts) = {} )
    => /\ ~executed
       /\ statement = NoStatement
       /\ response.failed # "none"

\* get_table_info returned a descriptor
Described == described # NoDescription /\ "table_details" \in DOMAIN described.result

\* the rows of _policies for the described table that are enabled
EnabledRowsOfDescribed ==
    { i \in 1..Len(policies) :
        policies[i].table_name = described.name /\ policies[i].is_enabled = 1 }

\* C16: the policies of a descriptor returned by get_table_info are exactly
\* the rows of _policies whose table_name is the described table and whose
\* is_enabled is 1, each once and with the row's values, after any sequence
\* of policy insertions and disablings.
C16_ExactlyEnabledPoliciesOfTable ==
    Described =>
        LET ps == described.result.table_details.policies IN
        /\ Len(ps) = Cardinality(EnabledRowsOfDescribed)
        /\ {ps[k].id : k \in 1..Len(ps)}
              = {policies[i].id : i \in EnabledRowsOfDescribed}
        /\ \A k \in 1..Len(ps) : \A i \in EnabledRowsOfDescribed :
              ps[k].id = policies[i].id =>
                 /\ ps[k].name = Some(policies[i].name)
                 /\ ps[k].is_enabled = 1
                 /\ ps[k].operation = Some(policies[i].operation)
                 /\ ps[k].policy_type = Some(policies[i].policy_type)
                 /\ ps[k].using_expr = policies[i].using_expr
                 /\ ps[k].check_expr = policies[i].check_expr

\* C16 witness: users described after one of its two policies was disabled
\* and while another table has none: one policy is returned
C16_Witness ==
    /\ Described
    /\ described.name = "users"
    /\ lastWrite = "updated"
    /\ Len(policies) = 2
    /\ \A i \in 1..2 : policies[i].table_name = "users"
    /\ Len(described.result.table_details.policies) = 1

\* the 1-based position of a column among the primary key columns of its
\* table, 0 for a column outside the key
KeyPosition(table, column) ==
    LET hits == { i \in 1..Len(table.columns) : table.columns[i].name = column }
    IN IF hits = {} THEN 0 ELSE table.columns[CHOOSE i \in hits : TRUE].pk

\* the described table
DescribedTable == CHOOSE m \in catalog : m.type = "table" /\ m.name = described.name

\* C17 as stated: primary_key_order is absent whenever is_primary_key is
\* false, and a primary key column has is_primary_key true with
\* primary_key_order its 1-based position in the key.
C17_KeyOrderAbsentOutsideKey ==
    Described =>
        LET cs == described.result.table_details.columns IN
        \A k \in 1..Len(cs) :
            /\ cs[k].is_primary_key = 0 => cs[k].primary_key_order = Null
            /\ cs[k].is_primary_key # 0 =>
                  cs[k].primary_key_order
                     = Some(KeyPosition(DescribedTable, cs[k].column_name))

\* C18 as stated: the columns of a descriptor are ordered by catalog position
\* and every column name appears exactly once, also for a column that is the
\* source of more than one foreign key.
C18_EachColumnOnceInCatalogOrder ==
    Described =>
        LET cs == described.result.table_details.columns
            table == DescribedTable
        IN /\ Len(cs) = Len(table.columns)
           /\ \A k \in 1..Len(cs) : cs[k].column_name = table.columns[k].name
           /\ \A k \in 1..Len(cs) : \A l \in 1..Len(cs) :
                 k < l => cs[k].column_id.some < cs[l].column_id.some

\* the latest call of get_table_info named no table of the catalog (no row
\* of sqlite_master, or a row that is not a table)
DescribedNoTable ==
    /\ described # NoDescription
    /\ ~\E m \in catalog : m.type = "table" /\ m.name = described.name

\* C19 as stated: get_table_info called with a name that is not the name of
\* a table fails with RowNotFound and returns no descriptor, also when
\* _policies has rows for that name.
C19_AsStated ==
    DescribedNoTable => described.result = [error |-> "RowNotFound"]

\* C19 amended: in a database that holds _policies, get_table_info called
\* with a name that is not the name of a table fails with RowNotFound and
\* returns no descriptor, also when _policies has rows for that name; in a
\* database without _policies every call fails with a database error and
\* returns no descriptor.
C19_NotATableIsNotFound ==
    /\ (DescribedNoTable /\ checkRendering # NoPolicyTable)
          => described.result = [error |-> "RowNotFound"]
    /\ (described # NoDescription /\ checkRendering = NoPolicyTable)
          => described.result = [error |-> "Database"]

\* C19 witness: ghost described while an enabled policy is stored for it
C19_Witness ==
    /\ described # NoDescription
    /\ described.name = "ghost"
    /\ \E i \in 1..Len(policies) :
          policies[i].table_name = "ghost" /\ policies[i].is_enabled = 1
    /\ described.result = [error |-> "RowNotFound"]

\* C20 as stated: json_to_sea maps null to SQL NULL, a boolean to a boolean,
\* an integral number to a 64-bit signed integer, a non-integral number to a
\* 64-bit float, a number beyond that precision (an integer above the i64
\* range) to a string of its digits, a string to a string, and an array or
\* object to a JSON value.
C20_MappingTable ==
    seaValue # NoValue =>
        IF jsonValue.kind = "Null" THEN seaValue.value = Null
        ELSE IF jsonValue.kind = "Bool"
        THEN seaValue = [kind |-> "Bool", value |-> Some(jsonValue.b)]
        ELSE IF jsonValue.kind = "Number"
        THEN IF jsonValue.n.variant = "PosInt" /\ jsonValue.n.limbs[1] >= 2^15
             THEN seaValue.kind = "String"
             ELSE IF jsonValue.n.variant \in {"PosInt", "NegInt"}
             THEN /\ seaValue.kind = "BigInt"
                  /\ seaValue.value.some.limbs = jsonValue.n.limbs
                  /\ seaValue.value.some.neg = (jsonValue.n.variant = "NegInt")
             ELSE seaValue = [kind |-> "Double", value |-> Some(jsonValue.n.f)]
        ELSE IF jsonValue.kind = "String"
        THEN seaValue = [kind |-> "String", value |-> Some(jsonValue.s)]
        ELSE seaValue = [kind |-> "Json", value |-> Some(jsonValue)]

\* the JSON value a typed parameter is written back as: a typed NULL as null,
\* a boolean as a boolean, an i64 as an integer number, an f64 as a float
\* number, a string as a string, a JSON parameter as the value it holds
SeaToJson(sea) ==
    IF sea.value = Null THEN JsonNull
    ELSE IF sea.kind = "Bool" THEN JsonBool(sea.value.some)
    ELSE IF sea.kind = "BigInt"
    THEN JsonNumber(IF sea.value.some.neg THEN NegInt(sea.value.some.limbs)
                    ELSE PosInt(sea.value.some.limbs))
    ELSE IF sea.kind = "Double"
    THEN JsonNumber([variant |-> "Float", f |-> sea.value.some])
    ELSE IF sea.kind = "String" THEN JsonString(sea.value.some)
    ELSE sea.value.some

\* json_to_sea took the string fallback for a number
TookStringFallback == jsonValue.kind = "Number" /\ seaValue.kind = "String"

\* C21 as stated: for every JSON value for which json_to_sea does not take
\* the string fallback, writing the produced parameter back as JSON gives the
\* original value.
C21_RoundTripOutsideFallback ==
    (seaValue # NoValue /\ ~TookStringFallback) => SeaToJson(seaValue) = jsonValue

\* find_by_email found no row for the call's email
UnknownEmail(call) == call.pc = "done" /\ IsEmail(call.form.email) /\ call.found = NoUser

\* find_by_email found a row, whose password is not the form's
WrongPassword(call) ==
    /\ call.pc = "done"
    /\ call.found \notin {NoUser, QueryFailed}
    /\ ~VerifyPassword(call.found, call.form.password)

\* a user with the email exists whose password is the form's
Credentials(form) ==
    \E u \in authUsers : u.email = form.email /\ VerifyPassword(u, form.password)

\* C22: login returns a token only for an email that exists with the
\* password that matches, and the response to an unknown email equals the
\* response to a known email with a wrong password (same status, same body).
C22_LoginRevealsNoSubject ==
    /\ \A i \in DOMAIN loginCalls :
          (loginCalls[i].response # NoResponse /\ loginCalls[i].response.status = 200)
             => Credentials(loginCalls[i].form)
    /\ \A i \in DOMAIN loginCalls : \A j \in DOMAIN loginCalls :
          (UnknownEmail(loginCalls[i]) /\ WrongPassword(loginCalls[j]))
          => loginCalls[i].response = loginCalls[j].response

\* C22 witness: one login answered for a well-formed email no user had and
\* one answered for the email of a user, with a wrong password
C22_Witness ==
    /\ loginCalls # <<>>
    /\ UnknownEmail(loginCalls[1])
    /\ WrongPassword(loginCalls[2])
    /\ loginCalls[1].response # NoResponse
    /\ loginCalls[2].response # NoResponse

\* the priority a handler counts with: 0 when it has none
CountedPriority(h) == IF h.priority = Null THEN 0 ELSE h.priority.some

\* the handler of the list that made a result of trigger
HandlerOf(hs, result) == hs[CHOOSE i \in 1..Len(hs) : hs[i].func.fn = result.value]

\* C24: trigger invokes the bound handlers in non-decreasing priority order
\* (no priority counting as 0), whatever the order of the binds and unbinds
\* before, and handlers of equal priority in the order they were bound.
C24_TriggerInPriorityOrder ==
    hookCall.op = "trigger" =>
        \A i \in 1..Len(hookCall.results) : \A j \in 1..Len(hookCall.results) :
            i < j =>
               LET hi == HandlerOf(hookCall.before, hookCall.results[i])
                   hj == HandlerOf(hookCall.before, hookCall.results[j])
               IN /\ CountedPriority(hi) <= CountedPriority(hj)
                  /\ CountedPriority(hi) = CountedPriority(hj)
                        => hi.func.fn < hj.func.fn

\* C24 witness: a trigger over three handlers, the last bound invoked first
\* and one of them without priority
C24_Witness ==
    /\ hookCall.op = "trigger"
    /\ Len(hookCall.results) = 3
    /\ hookCall.results[1].value = 3
    /\ \E i \in 1..3 : hookCall.before[i].priority = Null

\* the handlers of a list that carry the id
Carriers(hs, id) == { i \in 1..Len(hs) : hs[i].id = Some(id) }

\* unbind returns Ok exactly when a handler carried the id, and then removes
\* every handler carrying it and keeps the others in order; otherwise it
\* returns an error and leaves the list as it was
UnbindContract ==
    hookCall.op = "unbind" =>
        /\ hookCall.result = "Ok" <=> Carriers(hookCall.before, hookCall.id) # {}
        /\ Carriers(handlers, hookCall.id) = {}
        /\ LET Other(h) == h.id # Some(hookCall.id)
           IN handlers = SelectSeq(hookCall.before, Other)
        /\ hookCall.result = "Err" => handlers = hookCall.before

\* C25: unbind returns Ok exactly when a bound handler carried the id, and
\* then no handler carries it while the others stay bound in order; with no
\* carrier it returns an error and leaves the list unchanged; unbinding the
\* id returned by a bind brings length() back to its value before that bind.
C25_UnbindRemovesEveryCarrier ==
    /\ UnbindContract
    /\ ( /\ hookCall.op = "unbind"
         /\ hookCall.after_bind # NoHookCall
         /\ hookCall.after_bind.id = hookCall.id )
       => Len(handlers) = hookCall.after_bind.length

\* C25 witness: unbind of the id a bind has just returned, with another
\* handler bound, back to the length before the bind
C25_Witness ==
    /\ hookCall.op = "unbind"
    /\ hookCall.result = "Ok"
    /\ hookCall.after_bind # NoHookCall
    /\ hookCall.after_bind.id = hookCall.id
    /\ Len(handlers) = 1
    /\ hookCall.after_bind.length = 1

\* the results are those of the first n handlers of the list, in list order
ResultsOfFirst(results, hs, n) ==
    /\ Len(results) = n
    /\ \A i \in 1..n :
          /\ results[i].value = hs[i].func.fn
          /\ results[i].ok = ~hs[i].func.fails

\* C26: a trigger that returns has called every bound handler once, in list
\* order, and returns one result per handler in that order; a handler that
\* returns an error does not keep the later ones from running; while it is
\* under way the handlers called are the first of the list, each once, and
\* the handler list stays as it was.
C26_TriggerCallsEachHandlerOnce ==
    /\ [](hookCall.op = "trigger" =>
            /\ ResultsOfFirst(hookCall.results, hookCall.before, Len(hookCall.before))
            /\ handlers = hookCall.before)
    /\ [](triggerRun # NoRun =>
            /\ triggerRun.called \in 1..Len(handlers)
            /\ ResultsOfFirst(triggerRun.results, handlers, triggerRun.called - 1))
    /\ [][(triggerRun # NoRun \/ triggerRun' # NoRun) => handlers' = handlers]_vars

\* C26 witness: a trigger whose first handler returned an error and whose
\* second returned Ok
C26_Witness ==
    /\ hookCall.op = "trigger"
    /\ Len(hookCall.results) >= 2
    /\ ~hookCall.results[1].ok
    /\ hookCall.results[2].ok

\* the calls of upload that returned Ok
Uploaded == { i \in DOMAIN uploadCalls : uploadCalls[i].result = FileOk(<<>>) }

\* C27 as stated: upload returns Ok only when the directory of id did not
\* exist, so at most one upload under an id returns Ok and one made when the
\* directory exists returns a Local error and leaves the directories as they
\* were; after an upload under id returned Ok, download(id, name) returns the
\* bytes of that upload and list(id) only its name, whatever uploads came
\* later.
C27_SecondUploadRejected ==
    /\ [](\A i \in Uploaded : \A j \in Uploaded :
            uploadCalls[i].id = uploadCalls[j].id => i = j)
    /\ [][\A i \in DOMAIN uploadCalls :
            (uploadCalls[i].pc = "create_dir" /\ uploadCalls'[i].pc # "create_dir"
               /\ uploadCalls[i].id \in DOMAIN fs)
            => /\ uploadCalls'[i].result = LocalError("AlreadyExists")
               /\ fs' = fs]_vars
    /\ [][storageCall' # storageCall =>
            \A i \in Uploaded :
               /\ (storageCall'.op = "download" /\ storageCall'.id = uploadCalls[i].id
                     /\ storageCall'.name = uploadCalls[i].name)
                  => storageCall'.result = FileOk(uploadCalls[i].bytes)
               /\ (storageCall'.op = "list" /\ storageCall'.id = uploadCalls[i].id)
                  => storageCall'.result = FileOk(<<uploadCalls[i].name>>)]_vars

\* every stored policy has a using or a check expression, an operation and a
\* kind of the allowed sets, and a name of its own
PolicyStoreValid ==
    /\ \A i \in 1..Len(policies) :
          /\ policies[i].using_expr # Null \/ policies[i].check_expr # Null
          /\ policies[i].operation \in Operations
          /\ policies[i].policy_type \in PolicyTypes
    /\ \A i \in 1..Len(policies) : \A j \in 1..Len(policies) :
          policies[i].name = policies[j].name => i = j

\* C23: after any sequence of writes to _policies every stored policy has at
\* least one of using_expr and check_expr, an operation in {select, update,
\* insert, delete, all}, a kind in {PERMISSIVE, RESTRICTIVE} and a name no
\* other policy has, and a write that is rejected leaves the store unchanged.
C23_PolicyStoreStaysValid ==
    /\ []PolicyStoreValid
    /\ [][lastWrite' = "rejected" => policies' = policies]_vars

\* C23 witness: a write rejected by a store that holds two policies
C23_Witness ==
    /\ lastWrite = "rejected"
    /\ Len(policies) = 2

====
